---- MODULE Spec2Model ----
(***************************************************************************)
(* The workflow engine of jobscraper: BaseWorkflow (src/workflows/base.py) *)
(* builds a LangGraph StateGraph over WorkflowState, compiles it with a    *)
(* per-object MemorySaver and drives it with ainvoke.  The model follows   *)
(* the library's execution contract as base.py uses it: supersteps of      *)
(* nodes, channel writes merged per field (operator.add on messages, last  *)
(* value on every other field), one checkpoint per superstep keyed by      *)
(* thread_id = execution_id.                                               *)
(***************************************************************************)
EXTENDS Integers, Sequences, FiniteSets, TLC

\* ------------------------------------------------------------------ bounds
\* Number of run()/resume() calls made in one behaviour.
MaxInv == 2

Invs == 1..MaxInv
\* BaseWorkflow objects the callers create, each with its own MemorySaver.
ObjNames == <<"w1", "w2">>
WObjs == {ObjNames[k] : k \in DOMAIN ObjNames}
\* execution_id values the callers pass.
ExecNames == <<"e1", "e2">>
ExecIds == {ExecNames[k] : k \in DOMAIN ExecNames}
UserNames == <<"u1", "u2", "u3">>

\* ------------------------------------------------------- library constants
\* langgraph.graph.START / END, imported at base.py:3.
START == "__start__"
END == "__end__"

None == "None"
\* A dict key that is not present.
Absent == "-"

\* ------------------------------------------------------ workflow classes
\* Subclasses of BaseWorkflow: each fixes define_nodes, define_edges and
\* get_entry_point.  The shapes are those of examples/*.py plus the malformed
\* ones build() accepts without complaint.
Workflows == {"linear", "login", "sink", "unmapped", "bad_entry", "bad_edge",
              "bad_branch", "bad_source", "fanout", "mixed"}

\* Two of the examples as they are: ConnectingExpertiseWorkflow (ProUnity
\* and JobScraper have its login and handle_error edges) and
\* AGInsuranceWorkflow (EliaJobs has its edges, BNPPFJobs one more node
\* between parse_jobs and save_to_db).
Examples == {"connecting_expertise", "ag_insurance"}

\* The names under which the example classes are registered
\* (@register_workflow); pro_unity declares the graph of
\* connecting_expertise and elia_jobs that of ag_insurance.
Registered ==
    {"job_scraper", "connecting_expertise", "pro_unity", "bnppf_jobs", "elia_jobs",
     "ag_insurance"}

define_nodes(wf) ==
    CASE wf \in {"connecting_expertise", "pro_unity"} ->
           {"login", "fetch_jobs", "get_details", "save_to_db", "generate_summary",
            "handle_error"}
      [] wf \in {"ag_insurance", "elia_jobs"} ->
           {"fetch_emails", "parse_jobs", "save_to_db", "generate_output", "handle_error"}
      [] wf = "bnppf_jobs" ->
           {"fetch_emails", "parse_jobs", "summarize_jobs", "save_to_db", "generate_output",
            "handle_error"}
      [] wf = "job_scraper" ->
           {"login", "fetch_job_list", "filter_jobs", "get_job_details", "generate_summary",
            "send_notification", "handle_error"}
      [] wf = "bad_entry" -> {"a", "b"}
      [] wf = "bad_edge" -> {"a", "b"}
      [] wf = "bad_branch" -> {"a", "b"}
      [] wf = "bad_source" -> {"a", "b"}
      [] OTHER -> {"a", "b", "c"}

get_entry_point(wf) ==
    CASE wf \in {"connecting_expertise", "pro_unity", "job_scraper"} -> "login"
      [] wf \in {"ag_insurance", "elia_jobs", "bnppf_jobs"} -> "fetch_emails"
      [] wf = "bad_entry" -> "zz"
      [] OTHER -> "a"

\* A plausible slip: the key is tested for presence, not for truth.
_check_login_present(state) ==
    IF state.data.login_success # Absent THEN "success" ELSE "failure"

\* _check_login of connecting_expertise.py:90-91.
_check_login(state) ==
    IF state.data.login_success = "T" THEN "success" ELSE "failure"

\* _has_jobs of connecting_expertise.py:93-94.
_has_jobs(state) == IF state.data.all_jobs = "some" THEN "yes" ELSE "no"

\* _has_emails of ag_insurance.py:65-66.
_has_emails(state) == IF state.data.raw_emails = "some" THEN "yes" ELSE "no"

\* Condition functions are referred to by name in the edge tuples.
CallCondition(cond, state) ==
    CASE cond = "_check_login" -> _check_login(state)
      [] cond = "_has_jobs" -> _has_jobs(state)
      [] cond = "_has_emails" -> _has_emails(state)

\* define_edges returns (from, to) pairs and (from, condition, mapping)
\* triples, "END" written as a string.
define_edges(wf) ==
    CASE wf = "linear" -> << <<"a", "b">>, <<"b", "c">>, <<"c", "END">> >>
      [] wf = "login" ->
           << <<"a", "_check_login", [success |-> "b", failure |-> "c"]>>,
              <<"b", "END">>, <<"c", "END">> >>
      [] wf = "sink" ->
           << <<"a", "_check_login", [success |-> "b", failure |-> "END"]>>,
              <<"b", "c">> >>
      [] wf = "unmapped" ->
           << <<"a", "_check_login", [success |-> "b"]>>,
              <<"b", "c">>, <<"c", "END">> >>
      [] wf = "bad_entry" -> << <<"a", "b">>, <<"b", "END">> >>
      [] wf = "bad_edge" -> << <<"a", "b">>, <<"b", "zz">> >>
      [] wf = "bad_branch" ->
           << <<"a", "_check_login", [success |-> "b", failure |-> "zz"]>>,
              <<"b", "END">> >>
      [] wf = "bad_source" -> << <<"a", "b">>, <<"zz", "b">>, <<"b", "END">> >>
      [] wf = "fanout" -> << <<"a", "b">>, <<"a", "c">>, <<"b", "END">>, <<"c", "END">> >>
      [] wf = "mixed" ->
           << <<"a", "_check_login", [success |-> "b", failure |-> "END"]>>,
              <<"a", "c">>, <<"b", "END">>, <<"c", "END">> >>
      [] wf \in {"connecting_expertise", "pro_unity"} ->
           << <<"login", "_check_login",
                [success |-> "fetch_jobs", failure |-> "handle_error"]>>,
              <<"fetch_jobs", "_has_jobs",
                [yes |-> "get_details", no |-> "generate_summary"]>>,
              <<"get_details", "save_to_db">>,
              <<"save_to_db", "generate_summary">>,
              <<"generate_summary", "END">>,
              <<"handle_error", "END">> >>
      [] wf \in {"ag_insurance", "elia_jobs"} ->
           << <<"fetch_emails", "_has_emails",
                [yes |-> "parse_jobs", no |-> "generate_output"]>>,
              <<"parse_jobs", "save_to_db">>,
              <<"save_to_db", "generate_output">>,
              <<"generate_output", "END">>,
              <<"handle_error", "END">> >>
      [] wf = "bnppf_jobs" ->
           << <<"fetch_emails", "_has_emails",
                [yes |-> "parse_jobs", no |-> "generate_output"]>>,
              <<"parse_jobs", "summarize_jobs">>,
              <<"summarize_jobs", "save_to_db">>,
              <<"save_to_db", "generate_output">>,
              <<"generate_output", "END">>,
              <<"handle_error", "END">> >>
      [] wf = "job_scraper" ->
           << <<"login", "_check_login_success",
                [success |-> "fetch_job_list", failure |-> "handle_error"]>>,
              <<"fetch_job_list", "filter_jobs">>,
              <<"filter_jobs", "_check_has_relevant_jobs",
                [has_jobs |-> "get_job_details", no_jobs |-> "generate_summary"]>>,
              <<"get_job_details", "generate_summary">>,
              <<"generate_summary", "send_notification">>,
              <<"send_notification", "END">>,
              <<"handle_error", "END">> >>

\* ------------------------------------------------------------------ build
\* The "END" string of an edge becomes the END constant (base.py:81-91).
ResolveEnd(v) == IF v = "END" THEN END ELSE v

SimpleEdges(wf) ==
    { <<define_edges(wf)[k][1], ResolveEnd(define_edges(wf)[k][2])>> :
        k \in { j \in DOMAIN define_edges(wf) : Len(define_edges(wf)[j]) = 2 } }

ConditionalEdges(wf) ==
    { [from |-> define_edges(wf)[k][1],
       cond |-> define_edges(wf)[k][2],
       mapping |-> [l \in DOMAIN define_edges(wf)[k][3] |->
                      ResolveEnd(define_edges(wf)[k][3][l])]] :
        k \in { j \in DOMAIN define_edges(wf) : Len(define_edges(wf)[j]) = 3 } }

\* BaseWorkflow.build: the StateGraph with its nodes, the entry edge from
\* START and the edges of define_edges.  Nothing is validated here.
build(wf) ==
    [nodes |-> define_nodes(wf),
     edges |-> {<<START, get_entry_point(wf)>>} \cup SimpleEdges(wf),
     branches |-> ConditionalEdges(wf)]

\* StateGraph.compile validates the graph: every edge and branch source is a
\* node (or START), every edge and branch target is a node (or END).  Any
\* violation raises ValueError; there is one exception type for all of them.
GraphSources(g) == {e[1] : e \in g.edges} \cup {b.from : b \in g.branches}
GraphTargets(g) ==
    {e[2] : e \in g.edges}
      \cup UNION { {b.mapping[l] : l \in DOMAIN b.mapping} : b \in g.branches }

\* A plausible slip: a node without an outgoing edge is rejected.
ValidateNoDeadEnd(g) ==
    IF \E s \in GraphSources(g) : s \notin g.nodes /\ s # START
    THEN "ValueError"
    ELSE IF \E t \in GraphTargets(g) : t \notin g.nodes /\ t # END
    THEN "ValueError"
    ELSE IF \E n \in g.nodes : n \notin GraphSources(g)
    THEN "ValueError"
    ELSE "ok"

\* A plausible slip: only the targets of the edges are validated.
ValidateTargetsOnly(g) ==
    IF \E t \in GraphTargets(g) : t \notin g.nodes /\ t # END
    THEN "ValueError"
    ELSE "ok"

\* A plausible slip: only the sources of the edges are validated.
ValidateSourcesOnly(g) ==
    IF \E s \in GraphSources(g) : s \notin g.nodes /\ s # START
    THEN "ValueError"
    ELSE "ok"

Validate(g) ==
    IF \E s \in GraphSources(g) : s \notin g.nodes /\ s # START
    THEN "ValueError"
    ELSE IF \E t \in GraphTargets(g) : t \notin g.nodes /\ t # END
    THEN "ValueError"
    ELSE "ok"

\* ------------------------------------------------------------ WorkflowState
\* The keys of WorkflowState (base.py:11-31): one channel per key.
StateKeys == {"execution_id", "workflow_name", "current_step", "input_data",
              "output_data", "messages", "error", "should_retry", "data"}

\* dict values: a record over the keys the handlers use, Absent where the
\* dict has no such key.
EmptyInput == [username |-> Absent]
EmptyOutput == [error |-> Absent, success |-> Absent, summary |-> Absent]
EmptyData == [login_success |-> Absent, storage_state |-> Absent, all_jobs |-> Absent,
              raw_emails |-> Absent, parsed_jobs |-> Absent]

\* The input_data dict of the i-th call: every call passes its own.
InputOf(i) == [username |-> UserNames[i]]

\* initial_state of BaseWorkflow.run (base.py:111-121).
InitialState(name, entry, execution_id, input_data) ==
    [execution_id |-> execution_id,
     workflow_name |-> name,
     current_step |-> entry,
     input_data |-> input_data,
     output_data |-> EmptyOutput,
     messages |-> <<>>,
     error |-> None,
     should_retry |-> FALSE,
     data |-> EmptyData]

\* The channels of a thread that has no checkpoint: the messages channel
\* starts from list(), the others hold nothing yet (they are all written by
\* the input before any node reads them).
EmptyChannels == InitialState("", "", "", EmptyInput)

\* A plausible slip: the reducer drops entries the list already holds.
UpdateChannelDedup(key, old, new) ==
    IF key = "messages"
    THEN old \o SelectSeq(new, LAMBDA m : \A k \in DOMAIN old : old[k] # m)
    ELSE new

\* A plausible slip: the dict fields get an adding reducer as well, which
\* adds the written value to the stored one key by key.
UpdateChannelDeepAdd(key, old, new) ==
    IF key = "messages" THEN old \o new
    ELSE IF key \in {"data", "output_data"}
    THEN [f \in DOMAIN new |->
            IF old[f] = Absent THEN new[f]
            ELSE IF new[f] = Absent THEN old[f]
            ELSE old[f] \o new[f]]
    ELSE new

\* One write to a channel.  messages is Annotated[list[str], operator.add]
\* (base.py:24): the written list is added to the right of the stored one.
\* Every other key is a plain annotation: the written value replaces the old.
UpdateChannel(key, old, new) ==
    IF key = "messages" THEN old \o new ELSE new

\* A plausible slip: error is cleared by every dict that does not set it.
ApplyDeltaErrorReset(state, delta) ==
    [k \in StateKeys |->
        IF k \in DOMAIN delta THEN UpdateChannel(k, state[k], delta[k])
        ELSE IF k = "error" THEN None
        ELSE state[k]]

\* A plausible slip: a key WorkflowState does not have is stored as well.
ApplyDeltaKeepsAll(state, delta) ==
    [k \in StateKeys \cup DOMAIN delta |->
        IF k \notin StateKeys THEN delta[k]
        ELSE IF k \in DOMAIN delta THEN UpdateChannel(k, state[k], delta[k])
        ELSE state[k]]

\* A plausible slip: execution_id and workflow_name are written once and
\* kept from then on.
ApplyDeltaKeepsIdentity(state, delta) ==
    [k \in StateKeys |->
        IF k \in DOMAIN delta /\ (k \notin {"execution_id", "workflow_name"} \/ state[k] = "")
        THEN UpdateChannel(k, state[k], delta[k])
        ELSE state[k]]

\* A plausible slip: input_data is written once and kept from then on.
ApplyDeltaKeepsInput(state, delta) ==
    [k \in StateKeys |->
        IF k \in DOMAIN delta /\ (k # "input_data" \/ state[k] = EmptyInput)
        THEN UpdateChannel(k, state[k], delta[k])
        ELSE state[k]]

\* The writes of one returned dict: keys of WorkflowState are written, any
\* other key of the dict is dropped.
ApplyDelta(state, delta) ==
    [k \in StateKeys |->
        IF k \in DOMAIN delta THEN UpdateChannel(k, state[k], delta[k])
        ELSE state[k]]

\* ----------------------------------------------------------------- handlers
\* What a node handler may return, given the state it is called with.  The
\* shapes are those the example workflows return.
\* login_step on success (connecting_expertise.py:132-140).
LoginOk(n, state) ==
    [data |-> [state.data EXCEPT !.login_success = "T",
                                 !.storage_state = state.input_data.username],
     messages |-> <<"dup", n>>,
     current_step |-> n]

\* login_step on failure (connecting_expertise.py:143-147): error is set,
\* current_step is not.
LoginFailed(n, state) ==
    [data |-> [state.data EXCEPT !.login_success = "F"],
     error |-> "boom",
     messages |-> <<"dup", n>>]

\* generate_summary_step / handle_error_step (connecting_expertise.py:324-328,
\* 377-381): output_data is written from what the state holds.
Summarize(n, state) ==
    [output_data |-> [error |-> state.error,
                      success |-> IF state.error = None THEN "T" ELSE "F",
                      summary |-> state.data.storage_state],
     messages |-> <<"dup", n>>,
     current_step |-> n]

\* A handler that only logs: it returns a key WorkflowState does not have,
\* and sets should_retry (base.py:28).
Note(n, state) ==
    [messages |-> <<"dup", n>>, progress |-> "half", should_retry |-> TRUE]

\* A handler that returns the keys run() has set (base.py:112-115): the
\* engine takes any key of WorkflowState from any node.
Overwrite(n, state) ==
    [execution_id |-> "x",
     workflow_name |-> "other",
     input_data |-> [username |-> "root"],
     messages |-> <<"dup", n>>]

\* handle_error_step (connecting_expertise.py:376-381, ag_insurance.py:350-355).
HandleError(n, state) ==
    [output_data |-> [error |-> state.error, success |-> "F", summary |-> Absent],
     messages |-> <<"dup", n>>,
     current_step |-> n]

\* fetch_jobs_step (connecting_expertise.py:149-218): some jobs, or none.
FetchJobs(n, state, found) ==
    [data |-> [state.data EXCEPT !.all_jobs = found],
     messages |-> <<"dup", n>>,
     current_step |-> n]

\* get_details_step and save_to_db_step: keys of data the edges do not
\* look at.
Step(n, state) ==
    [data |-> state.data, messages |-> <<"dup", n>>, current_step |-> n]

\* generate_summary_step (connecting_expertise.py:317-374): one detailed
\* job for every job fetched, "No jobs found." without.
GenerateSummary(n, state) ==
    [output_data |-> [error |-> Absent, success |-> Absent,
                      summary |-> IF state.data.all_jobs = "some" THEN "jobs"
                                  ELSE "No jobs found."],
     messages |-> <<"dup", n>>,
     current_step |-> n]

\* fetch_emails_step (ag_insurance.py:69-128): the emails found, or, after
\* an exception, no email, error set and no current_step.
FetchEmails(n, state, found) ==
    [data |-> [state.data EXCEPT !.raw_emails = found],
     messages |-> <<"dup", n>>,
     current_step |-> n]
FetchEmailsFailed(n, state) ==
    [data |-> [state.data EXCEPT !.raw_emails = "empty"],
     error |-> "boom",
     messages |-> <<"dup", n>>]

\* parse_jobs_step (ag_insurance.py:130-230): the jobs parsed, maybe none.
ParseJobs(n, state, found) ==
    [data |-> [state.data EXCEPT !.parsed_jobs = found],
     messages |-> <<"dup", n>>,
     current_step |-> n]

\* generate_output_step (ag_insurance.py:281-348): "No job emails found."
\* when data has no parsed job.
GenerateOutput(n, state) ==
    [output_data |-> [error |-> Absent, success |-> Absent,
                      summary |-> IF state.data.parsed_jobs = "some" THEN "jobs"
                                  ELSE "No job emails found."],
     messages |-> <<"dup", n>>,
     current_step |-> n]

\* define_nodes: the handler each class puts behind a node name.  "a" logs
\* in, and cannot fail in "fanout"; "b" overwrites in "linear", and
\* elsewhere logs, or summarizes except in "fanout"; "c" summarizes.
HandlerDeltas(wf, n, state) ==
    CASE n = "a" ->
           {LoginOk(n, state)}
             \cup (IF wf # "fanout" THEN {LoginFailed(n, state)} ELSE {})
      [] n = "b" ->
           IF wf = "linear" THEN {Overwrite(n, state)}
           ELSE {Note(n, state)}
                  \cup (IF wf # "fanout" THEN {Summarize(n, state)} ELSE {})
      [] n = "c" -> {Summarize(n, state)}
      [] n = "login" -> {LoginOk(n, state), LoginFailed(n, state)}
      [] n = "fetch_jobs" -> {FetchJobs(n, state, "some"), FetchJobs(n, state, "empty")}
      [] n \in {"get_details", "save_to_db"} -> {Step(n, state)}
      [] n = "generate_summary" -> {GenerateSummary(n, state)}
      [] n = "handle_error" -> {HandleError(n, state)}
      [] n = "fetch_emails" ->
           {FetchEmails(n, state, "some"), FetchEmails(n, state, "empty"),
            FetchEmailsFailed(n, state)}
      [] n = "parse_jobs" -> {ParseJobs(n, state, "some"), ParseJobs(n, state, "empty")}
      [] n = "generate_output" -> {GenerateOutput(n, state)}

\* -------------------------------------------------------------------- state
VARIABLES
    wfclass,   \* the BaseWorkflow subclass the objects are instances of
    graph,     \* per object: self.graph, NoGraph until build() has set it
    store,     \* per object: MemorySaver, the last checkpoint of each thread
    pending,   \* per object: MemorySaver, the task writes put since that checkpoint
    pc,        \* per call: "idle", "step" (a superstep in flight), "done", "raised"
    call,      \* per call: run or resume, on which object, with which arguments
    chan,      \* per call: the channel values the Pregel loop holds
    running,   \* per call: the nodes of the current superstep that have not returned
    exc,       \* per call: the exception that left run()/resume()
    hist,      \* per thread: every node execution, in the order they were started
    mlog,      \* per thread: every returned dict the loop has applied, in order
    status,    \* per call: the status of its WorkflowExecution row, if it has one
    row,       \* per call: output_data and error_message of that row
    _workflows, \* WorkflowRegistry._workflows: the dict, in insertion order
    ret,       \* the last call made on the registry, and what it returned
    made,      \* the number of workflow objects the registry has constructed
    _browser_manager, \* browser/manager.py: the module's singleton, NoManager until set
    managers,  \* the BrowserManager objects constructed: _playwright and _browser set or not
    callers,   \* per coroutine calling get_browser_manager: where it is, what it got
    worker,    \* run_worker.py: the environment and the locals of _run_all and main
    jobs,      \* the rows of the jobs table, in insertion order
    sessions,  \* per open session: the save_job / save_jobs_batch call it is in
    otp        \* m365.py: the arguments, the clock and the result of wait_for_otp_email

vars == <<wfclass, graph, store, pending, pc, call, chan, running, exc, hist, mlog,
          status, row, _workflows, ret, made,
          _browser_manager, managers, callers, worker, jobs, sessions, otp>>
\* What the engine holds; status and row are the API's.
engine_vars == <<wfclass, graph, store, pending, pc, call, chan, running, exc, hist, mlog>>
api_vars == <<status, row>>
registry_vars == <<_workflows, ret, made>>
browser_vars == <<_browser_manager, managers, callers>>
worker_vars == <<worker>>
job_vars == <<jobs, sessions>>
otp_vars == <<otp>>
\* What the engine, the API and the registry leave alone.
aux_vars == <<browser_vars, worker_vars, job_vars, otp_vars>>
core_vars == <<engine_vars, api_vars, registry_vars>>

\* ------------------------------------------------------------ bounds
MaxCallers == 3
Callers == 1..MaxCallers
MaxSessions == 2
Sessions == 1..MaxSessions

\* _browser_manager = None (manager.py:90).
NoManager == 0
NoCaller == [pc |-> "idle", got |-> NoManager]
\* _run_all has not been called.
NoWorker ==
    [workflow_names |-> <<>>, fail_fast |-> FALSE, bad_inputs |-> {},
     k |-> 0, failures |-> 0, seen |-> <<>>, outcomes |-> <<>>, active |-> {},
     pc |-> "idle", exit |-> "-"]
\* No save_job call is open on the session.
NoSession == [pc |-> "idle", source |-> "", todo |-> <<>>, reference |-> "",
              new_count |-> 0, skipped_count |-> 0, exc |-> "None"]
\* wait_for_otp_email has not been called.
NoOtp == [timeout_seconds |-> 0, poll_interval |-> 0, subject_contains |-> "None",
          elapsed |-> 0, errors |-> 0, pc |-> "idle", response |-> <<>>, result |-> "-"]

\* self.graph = None (base.py:39).
NoGraph == [nodes |-> {}, edges |-> {}, branches |-> {}]
NoCheckpoint == [exists |-> FALSE, values |-> EmptyChannels, next |-> {}]
NoCall == [kind |-> "none", obj |-> "w1", eid |-> "e1", tid |-> "e1", input |-> EmptyInput]
\* The columns a new WorkflowExecution row leaves unset (models.py).
NoRow == [output_data |-> None, error_message |-> None]
\* No call has been made on the registry.
NoRet == [op |-> "none", name |-> None, arg |-> None, result |-> None]

\* BaseWorkflow.__init__ (base.py:37-40): no graph yet, a fresh MemorySaver.
Constructed ==
    /\ graph = [w \in WObjs |-> NoGraph]
    /\ store = [w \in WObjs |-> [e \in ExecIds |-> NoCheckpoint]]
    /\ pending = [w \in WObjs |-> [e \in ExecIds |-> {}]]
    /\ pc = [i \in Invs |-> "idle"]
    /\ call = [i \in Invs |-> NoCall]
    /\ chan = [i \in Invs |-> EmptyChannels]
    /\ running = [i \in Invs |-> {}]
    /\ exc = [i \in Invs |-> None]
    /\ hist = [w \in WObjs |-> [e \in ExecIds |-> <<>>]]
    /\ mlog = [w \in WObjs |-> [e \in ExecIds |-> <<>>]]
    /\ status = [i \in Invs |-> "NONE"]
    /\ row = [i \in Invs |-> NoRow]
    /\ _workflows = <<>>
    /\ ret = NoRet
    /\ made = 0
    /\ _browser_manager = NoManager
    /\ managers = <<>>
    /\ callers = [c \in Callers |-> NoCaller]
    /\ jobs = <<>>
    /\ sessions = [s \in Sessions |-> NoSession]

\* The engine is checked on the classes made for it.
Init == wfclass \in Workflows /\ Constructed /\ worker = NoWorker /\ otp = NoOtp

\* ------------------------------------------------------------- Pregel loop
\* Tasks of a superstep are prepared, and their writes applied, in the order
\* of the node names.
NodeOrder ==
    <<"a", "b", "c", "fetch_emails", "fetch_jobs", "generate_output", "generate_summary",
      "get_details", "handle_error", "login", "parse_jobs", "save_to_db">>
SortedTasks(S) == SelectSeq(NodeOrder, LAMBDA n : n \in S)

\* The successors one returned node triggers: the targets of its plain
\* edges, and for each conditional edge the target its mapping gives for the
\* label (add_conditional_edges, base.py:92).
\* A plausible slip: the plain edges of a node that has a conditional edge
\* are not followed.
EdgeTargetsUnlessBranch(g, n) ==
    IF \E b \in g.branches : b.from = n THEN {}
    ELSE {e[2] : e \in {x \in g.edges : x[1] = n}}
EdgeTargets(g, n) == {e[2] : e \in {x \in g.edges : x[1] = n}}
BranchesOf(g, n) == {b \in g.branches : b.from = n}
\* A plausible slip: the condition sees the state the node was called with.
BranchStateBefore(state, delta) == state

\* The condition function is called with the channel values as the node's
\* own writes have left them.
BranchState(state, delta) == ApplyDelta(state, delta)
BranchLabel(b, state, delta) == CallCondition(b.cond, BranchState(state, delta))
\* A plausible slip: every target of the mapping is triggered.
BranchTargetsAll(g, n, state, delta) ==
    UNION { {b.mapping[l] : l \in DOMAIN b.mapping} : b \in BranchesOf(g, n) }
BranchTargets(g, n, state, delta) ==
    {b.mapping[BranchLabel(b, state, delta)] : b \in BranchesOf(g, n)}
\* A label the mapping does not hold: the lookup raises KeyError.
Unmapped(g, n, state, delta) ==
    \E b \in BranchesOf(g, n) : BranchLabel(b, state, delta) \notin DOMAIN b.mapping

\* Two tasks of one superstep wrote the same last-value channel.
Conflict(ws) ==
    \E t1 \in ws, t2 \in ws :
        /\ t1.node # t2.node
        /\ \E k \in StateKeys \ {"messages"} : k \in DOMAIN t1.delta /\ k \in DOMAIN t2.delta

RECURSIVE ApplyTasks(_, _, _)
ApplyTasks(state, ws, k) ==
    IF k > Len(NodeOrder) THEN state
    ELSE LET hit == {t \in ws : t.node = NodeOrder[k]}
         IN ApplyTasks(IF hit = {} THEN state
                       ELSE ApplyDelta(state, (CHOOSE t \in hit : TRUE).delta),
                       ws, k + 1)

\* apply_writes: the writes of the superstep's tasks, task by task.
ApplyWrites(state, ws) == ApplyTasks(state, ws, 1)

SetsRetry(d) == "should_retry" \in DOMAIN d /\ d.should_retry
\* A plausible slip: a node that sets should_retry is entered again.
NextTasksRetry(ws) ==
    IF \E t \in ws : SetsRetry(t.delta)
    THEN {t.node : t \in {x \in ws : SetsRetry(x.delta)}}
    ELSE (UNION {t.targets : t \in ws}) \ {END}
\* A plausible slip: a node whose dict sets error is entered again.
NextTasksOnError(ws) ==
    IF \E t \in ws : "error" \in DOMAIN t.delta /\ t.delta.error # None
    THEN {t.node : t \in {x \in ws : "error" \in DOMAIN x.delta /\ x.delta.error # None}}
    ELSE (UNION {t.targets : t \in ws}) \ {END}
NextTasks(ws) == (UNION {t.targets : t \in ws}) \ {END}

\* ------------------------------------------------------- execution history
Started(i, S) ==
    [k \in 1..Len(SortedTasks(S)) |->
        [node |-> SortedTasks(S)[k], inv |-> i, st |-> "running"]]

\* Every entry of h in state `from` (of the nodes in S) moves to state `to`.
Mark(h, S, from, to) ==
    [k \in DOMAIN h |->
        IF h[k].st = from /\ h[k].node \in S THEN [h[k] EXCEPT !.st = to] ELSE h[k]]

\* The dicts of a superstep's tasks, in the order apply_writes takes them.
Applied(ws) ==
    [k \in 1..Len(SortedTasks({t.node : t \in ws})) |->
        LET n == SortedTasks({t.node : t \in ws})[k]
        IN [node |-> n, delta |-> (CHOOSE t \in ws : t.node = n).delta]]

AllNodes == {NodeOrder[k] : k \in DOMAIN NodeOrder}

\* A plausible slip: one thread for every execution.
thread_id_shared(execution_id) == "e1"

\* run_config of run() and config of resume() (base.py:123, 144): the
\* checkpointer's thread is the execution_id.
thread_id(execution_id) == execution_id

\* ------------------------------------------------------------ the saver
\* MemorySaver (base.py:40) keeps every checkpoint serialized: put packs the
\* channel values, get unpacks them.  A str is packed with its type, None as
\* nil, a bool as true or false, a list as the array of its packed items, a
\* dict as the set of its (key, packed value) pairs, absent keys left out.
PackStr(s) == IF s = None THEN <<"nil">> ELSE <<"str", s>>
\* A plausible slip: nil is unpacked as the empty string.
UnpackStrNoNil(p) == IF p[1] = "nil" THEN "" ELSE p[2]
UnpackStr(p) == IF p[1] = "nil" THEN None ELSE p[2]
PackBool(b) == IF b THEN <<"true">> ELSE <<"false">>
UnpackBool(p) == p[1] = "true"
PackList(l) == [k \in DOMAIN l |-> PackStr(l[k])]
UnpackList(p) == [k \in DOMAIN p |-> UnpackStr(p[k])]
PackDict(d) == {<<k, PackStr(d[k])>> : k \in {x \in DOMAIN d : d[x] # Absent}}
\* keys: the keys the handlers use in this dict.
UnpackDict(p, keys) ==
    [k \in keys |->
        IF \E x \in p : x[1] = k
        THEN UnpackStr((CHOOSE x \in p : x[1] = k)[2])
        ELSE Absent]

StrKeys == {"execution_id", "workflow_name", "current_step", "error"}
DictKeys(k) ==
    CASE k = "input_data" -> DOMAIN EmptyInput
      [] k = "output_data" -> DOMAIN EmptyOutput
      [] k = "data" -> DOMAIN EmptyData

dumps_typed(state) ==
    [k \in StateKeys |->
        CASE k \in StrKeys -> PackStr(state[k])
          [] k = "messages" -> PackList(state[k])
          [] k = "should_retry" -> PackBool(state[k])
          [] OTHER -> PackDict(state[k])]

loads_typed(blob) ==
    [k \in StateKeys |->
        CASE k \in StrKeys -> UnpackStr(blob[k])
          [] k = "messages" -> UnpackList(blob[k])
          [] k = "should_retry" -> UnpackBool(blob[k])
          [] OTHER -> UnpackDict(blob[k], DictKeys(k))]

\* A plausible slip: the checkpoint of the step is not written.
PutCheckpointSkipped(old, vals, next) == old

\* MemorySaver.put: the thread's checkpoint is replaced.
PutCheckpoint(old, vals, next) == [exists |-> TRUE, values |-> vals, next |-> next]

\* aget_state (base.py:146), and the load ainvoke starts with: the values of
\* the thread's last checkpoint, unpacked from what the saver holds.
aget_state(ckpt) == loads_typed(dumps_typed(ckpt.values))

\* A plausible slip: the thread is run again from the entry node.
ResumeFromEntry(ckpt, pend) == {"a"}

\* The tasks ainvoke(None) runs on a thread: those the checkpoint left to
\* run, less those whose writes were already put.
ResumeTasks(ckpt, pend) == ckpt.next \ {t.node : t \in pend}

\* The caller never has two calls in flight on one thread of one object.
ThreadFree(w, t) ==
    ~ \E j \in Invs : pc[j] = "step" /\ call[j].obj = w /\ call[j].tid = t

\* Calls are numbered in the order they are made; objects and execution ids
\* are named in the order they are first used.
UsedObjs == {call[j].obj : j \in {k \in Invs : pc[k] # "idle"}}
UsedExec == {call[j].eid : j \in {k \in Invs : pc[k] # "idle"}}

CanStart(i, w, e) ==
    /\ pc[i] = "idle"
    /\ \A j \in Invs : j < i => pc[j] # "idle"
    /\ \E k \in 1..(Cardinality(UsedObjs) + 1) : k \in DOMAIN ObjNames /\ w = ObjNames[k]
    /\ \E k \in 1..(Cardinality(UsedExec) + 1) : k \in DOMAIN ExecNames /\ e = ExecNames[k]
    /\ ThreadFree(w, thread_id(e))

\* The config argument of run() (base.py:102-107): None or a dict, here a
\* function from its keys. NoConfig stands for None and for {}, which
\* `if config` treats alike.
NoConfig == [k \in {} |-> None]

\* run_config of run() (base.py:123-125): {"configurable": {"thread_id":
\* execution_id}}, then dict.update(config), which replaces whole top-level
\* values.
run_config(execution_id, config) ==
    LET base == [configurable |-> [thread_id |-> thread_id(execution_id)]]
    IN  IF DOMAIN config = {} THEN base
        ELSE [k \in DOMAIN base \cup DOMAIN config |->
                IF k \in DOMAIN config THEN config[k] ELSE base[k]]

\* The thread a checkpointer saves under with that config: its
\* configurable thread_id; without one ainvoke raises ValueError.
ConfigThread(rc) ==
    IF "thread_id" \in DOMAIN rc.configurable THEN rc.configurable.thread_id ELSE Absent

\* compile() (base.py:96-100): build() when self.graph is not set, then
\* StateGraph.compile, which validates.
Built(g, wf) == IF g = NoGraph THEN build(wf) ELSE g
compile(g) == Validate(g)

\* ----------------------------------------------------------------- actions
\* BaseWorkflow.run (base.py:102-135) up to the first node: compile, the
\* initial state written through the channels of thread execution_id (a
\* thread that already has a checkpoint keeps its channel values and
\* receives the initial state as one more write; the tasks it had left are
\* dropped), the checkpoint of the input, and the entry node started.
run(i, w, e, inp, config) ==
    /\ CanStart(i, w, e)
    /\ ThreadFree(w, ConfigThread(run_config(e, config)))
    /\ call' = [call EXCEPT ![i] =
                  [kind |-> "run", obj |-> w, eid |-> e,
                   tid |-> ConfigThread(run_config(e, config)), input |-> inp]]
    /\ graph' = [graph EXCEPT ![w] = Built(@, wfclass)]
    /\ IF compile(Built(graph[w], wfclass)) # "ok" \/ ConfigThread(run_config(e, config)) = Absent
       THEN /\ pc' = [pc EXCEPT ![i] = "raised"]
            /\ exc' = [exc EXCEPT ![i] =
                         IF compile(Built(graph[w], wfclass)) # "ok"
                         THEN compile(Built(graph[w], wfclass))
                         ELSE "ValueError"]
            /\ UNCHANGED <<store, pending, chan, running, hist, mlog>>
       ELSE LET t == ConfigThread(run_config(e, config))
                entry == get_entry_point(wfclass)
                init == InitialState(wfclass, entry, e, inp)
                vals == ApplyDelta(aget_state(store[w][t]), init)
            IN /\ store' = [store EXCEPT ![w][t] = PutCheckpoint(@, vals, {entry})]
               /\ pending' = [pending EXCEPT ![w][t] = {}]
               /\ chan' = [chan EXCEPT ![i] = vals]
               /\ running' = [running EXCEPT ![i] = {entry}]
               /\ pc' = [pc EXCEPT ![i] = "step"]
               /\ hist' = [hist EXCEPT ![w][t] =
                             Mark(@, AllNodes, "returned", "discarded") \o Started(i, {entry})]
               /\ mlog' = [mlog EXCEPT ![w][t] = Append(@, [node |-> START, delta |-> init])]
               /\ UNCHANGED exc
    /\ UNCHANGED wfclass

\* new_input arguments of resume(): None, or a dict.
NewInputs(i) == {EmptyInput, InputOf(i)}

\* BaseWorkflow.resume (base.py:137-151): aget_state reads the thread's last
\* checkpoint into a snapshot, new_input is written into that snapshot's
\* input_data, and ainvoke(None) reloads the checkpoint and goes on with the
\* tasks it left to run; the writes put by tasks that had returned are taken
\* as they are.
resume(i, w, e, new_input) ==
    /\ CanStart(i, w, e)
    /\ call' = [call EXCEPT ![i] =
                  [kind |-> "resume", obj |-> w, eid |-> e, tid |-> thread_id(e),
                   input |-> new_input]]
    /\ graph' = [graph EXCEPT ![w] = Built(@, wfclass)]
    /\ UNCHANGED <<wfclass, store, pending, mlog>>
    /\ IF compile(Built(graph[w], wfclass)) # "ok"
       THEN /\ pc' = [pc EXCEPT ![i] = "raised"]
            /\ exc' = [exc EXCEPT ![i] = compile(Built(graph[w], wfclass))]
            /\ UNCHANGED <<chan, running, hist>>
       ELSE IF ~ store[w][thread_id(e)].exists
       THEN \* the snapshot's values are {}: indexing input_data raises
            \* KeyError; without new_input ainvoke(None) finds no input.
            /\ pc' = [pc EXCEPT ![i] = "raised"]
            /\ exc' = [exc EXCEPT ![i] =
                         IF new_input # EmptyInput THEN "KeyError" ELSE "EmptyInputError"]
            /\ UNCHANGED <<chan, running, hist>>
       ELSE IF /\ store[w][thread_id(e)].next # {}
               /\ ResumeTasks(store[w][thread_id(e)], pending[w][thread_id(e)]) = {}
       THEN \* every task left has its writes put: they are applied at once,
            \* and they are the writes that could not be applied before.
            /\ pc' = [pc EXCEPT ![i] = "raised"]
            /\ exc' = [exc EXCEPT ![i] = "InvalidUpdateError"]
            /\ UNCHANGED <<chan, running, hist>>
       ELSE LET t == thread_id(e)
                todo == ResumeTasks(store[w][t], pending[w][t])
            IN /\ chan' = [chan EXCEPT ![i] = aget_state(store[w][t])]
               /\ running' = [running EXCEPT ![i] = todo]
               /\ pc' = [pc EXCEPT ![i] =
                           IF store[w][t].next = {} THEN "done" ELSE "step"]
               /\ hist' = [hist EXCEPT ![w][t] = @ \o Started(i, todo)]
               /\ UNCHANGED exc

\* A plausible slip: the except clause logs the exception and returns.
AbortSwallowed(i, n, st, e) ==
    /\ pc' = [pc EXCEPT ![i] = "done"]
    /\ exc' = [exc EXCEPT ![i] = e]
    /\ running' = [running EXCEPT ![i] = {}]
    /\ hist' = [hist EXCEPT ![call[i].obj][call[i].tid] = Mark(@, {n}, "running", st)]
    /\ UNCHANGED <<wfclass, graph, store, pending, call, chan, mlog>>

\* A task of the superstep fails: the other tasks are cancelled, nothing of
\* the superstep is applied, and the exception leaves ainvoke; run() logs it
\* and raises it again (base.py:133-135).
Abort(i, n, st, e) ==
    /\ pc' = [pc EXCEPT ![i] = "raised"]
    /\ exc' = [exc EXCEPT ![i] = e]
    /\ running' = [running EXCEPT ![i] = {}]
    /\ hist' = [hist EXCEPT ![call[i].obj][call[i].tid] =
                  Mark(Mark(@, {n}, "running", st), AllNodes, "running", "cancelled")]
    /\ UNCHANGED <<wfclass, graph, store, pending, call, chan, mlog>>

\* The handler of node n returns a dict: its conditional edges are routed on
\* it and the task's writes are put in the checkpointer.  When it is the last
\* task of the superstep to return, the writes of the superstep are applied
\* to the channels, the checkpoint of the step is saved under the thread, and
\* the nodes that were triggered are started; with none triggered ainvoke
\* returns the channel values.
NodeReturns(i, n) ==
    /\ pc[i] = "step"
    /\ n \in running[i]
    /\ \E d \in HandlerDeltas(wfclass, n, chan[i]) :
        /\ ~ Unmapped(graph[call[i].obj], n, chan[i], d)
        /\ LET w == call[i].obj
               t == call[i].tid
               ws == pending[w][t] \cup
                       {[node |-> n, delta |-> d,
                         targets |-> EdgeTargets(graph[w], n)
                                       \cup BranchTargets(graph[w], n, chan[i], d)]}
               vals == ApplyWrites(chan[i], ws)
               next == NextTasks(ws)
           IN IF running[i] # {n}
              THEN /\ pending' = [pending EXCEPT ![w][t] = ws]
                   /\ running' = [running EXCEPT ![i] = @ \ {n}]
                   /\ hist' = [hist EXCEPT ![w][t] = Mark(@, {n}, "running", "returned")]
                   /\ UNCHANGED <<store, pc, chan, exc, mlog>>
              ELSE IF Conflict(ws)
              THEN /\ pending' = [pending EXCEPT ![w][t] = ws]
                   /\ running' = [running EXCEPT ![i] = {}]
                   /\ hist' = [hist EXCEPT ![w][t] = Mark(@, {n}, "running", "returned")]
                   /\ pc' = [pc EXCEPT ![i] = "raised"]
                   /\ exc' = [exc EXCEPT ![i] = "InvalidUpdateError"]
                   /\ UNCHANGED <<store, chan, mlog>>
              ELSE /\ chan' = [chan EXCEPT ![i] = vals]
                   /\ store' = [store EXCEPT ![w][t] = PutCheckpoint(@, vals, next)]
                   /\ pending' = [pending EXCEPT ![w][t] = {}]
                   /\ running' = [running EXCEPT ![i] = next]
                   /\ pc' = [pc EXCEPT ![i] = IF next = {} THEN "done" ELSE "step"]
                   /\ hist' = [hist EXCEPT ![w][t] =
                                 Mark(Mark(@, {n}, "running", "returned"),
                                      AllNodes, "returned", "merged")
                                   \o Started(i, next)]
                   /\ mlog' = [mlog EXCEPT ![w][t] = @ \o Applied(ws)]
                   /\ UNCHANGED exc
    /\ UNCHANGED <<wfclass, graph, call>>

\* A plausible slip: a label the mapping does not hold ends the run.
BranchEndsRun(i, n) ==
    /\ pc[i] = "step"
    /\ n \in running[i]
    /\ \E d \in HandlerDeltas(wfclass, n, chan[i]) : Unmapped(graph[call[i].obj], n, chan[i], d)
    /\ pc' = [pc EXCEPT ![i] = "done"]
    /\ running' = [running EXCEPT ![i] = {}]
    /\ UNCHANGED <<wfclass, graph, store, pending, call, chan, exc, hist, mlog>>

\* The handler returns, and a condition function gives a label its mapping
\* does not hold.
BranchRaises(i, n) ==
    /\ pc[i] = "step"
    /\ n \in running[i]
    /\ \E d \in HandlerDeltas(wfclass, n, chan[i]) : Unmapped(graph[call[i].obj], n, chan[i], d)
    /\ Abort(i, n, "unrouted", "KeyError")

\* The handler raises.
HandlerRaises(i, n) ==
    /\ pc[i] = "step"
    /\ n \in running[i]
    /\ Abort(i, n, "raised", "HandlerError")

\* The engine as its callers may use it: any call of run() or resume() on
\* any object; no execution row is involved.
Next ==
    \/ \E i \in Invs, w \in WObjs, e \in ExecIds :
          run(i, w, e, InputOf(i), NoConfig) /\ UNCHANGED <<api_vars, registry_vars, aux_vars>>
    \/ \E i \in Invs, w \in WObjs, e \in ExecIds :
          \E inp \in NewInputs(i) : resume(i, w, e, inp) /\ UNCHANGED <<api_vars, registry_vars, aux_vars>>
    \/ \E i \in Invs, n \in AllNodes : NodeReturns(i, n) /\ UNCHANGED <<api_vars, registry_vars, aux_vars>>
    \/ \E i \in Invs, n \in AllNodes : BranchRaises(i, n) /\ UNCHANGED <<api_vars, registry_vars, aux_vars>>
    \/ \E i \in Invs, n \in AllNodes : HandlerRaises(i, n) /\ UNCHANGED <<api_vars, registry_vars, aux_vars>>

Spec == Init /\ [][Next]_vars

\* ------------------------------------------------- run() with a config
\* The engine called with the optional config argument of run(): a dict
\* without "configurable", one whose "configurable" names a thread, and one
\* whose "configurable" is empty.
ConfigClasses == {"linear", "unmapped"}

ConfigNext ==
    \/ \E i \in Invs, w \in WObjs, e \in ExecIds :
          run(i, w, e, InputOf(i), NoConfig) /\ UNCHANGED <<api_vars, registry_vars, aux_vars>>
    \/ \E i \in Invs, w \in WObjs, e \in ExecIds :
          run(i, w, e, InputOf(i), [recursion_limit |-> 25])
             /\ UNCHANGED <<api_vars, registry_vars, aux_vars>>
    \/ \E i \in Invs, w \in WObjs, e \in ExecIds, t \in ExecIds :
          run(i, w, e, InputOf(i), [configurable |-> [thread_id |-> t]])
             /\ UNCHANGED <<api_vars, registry_vars, aux_vars>>
    \/ \E i \in Invs, w \in WObjs, e \in ExecIds :
          run(i, w, e, InputOf(i), [configurable |-> NoConfig])
             /\ UNCHANGED <<api_vars, registry_vars, aux_vars>>
    \/ \E i \in Invs, n \in AllNodes : NodeReturns(i, n) /\ UNCHANGED <<api_vars, registry_vars, aux_vars>>
    \/ \E i \in Invs, n \in AllNodes : BranchRaises(i, n) /\ UNCHANGED <<api_vars, registry_vars, aux_vars>>
    \/ \E i \in Invs, n \in AllNodes : HandlerRaises(i, n) /\ UNCHANGED <<api_vars, registry_vars, aux_vars>>

InitConfig == wfclass \in ConfigClasses /\ Constructed /\ worker = NoWorker /\ otp = NoOtp

SpecConfig == InitConfig /\ [][ConfigNext]_vars

\* ------------------------------------------------------- the executions API
\* api/routes/executions.py.  Every execution has a row with a status, its
\* own workflow object (workflow_registry.create, executions.py:62) and its
\* own execution_id (the row's uuid).
ApiExecs == Invs \cap DOMAIN ObjNames \cap DOMAIN ExecNames

\* run_workflow (executions.py:94-135): the row is created PENDING and the
\* background task is scheduled.
run_workflow(i) ==
    /\ i \in ApiExecs
    /\ status[i] = "NONE"
    /\ \A j \in Invs : j < i => status[j] # "NONE"
    /\ status' = [status EXCEPT ![i] = "PENDING"]
    /\ UNCHANGED <<engine_vars, row, registry_vars, aux_vars>>

\* A plausible slip: the except clause records the run as COMPLETED too.
StatusAfterSwallowed(i, old) ==
    IF pc'[i] \in {"done", "raised"} THEN "COMPLETED" ELSE old

\* The status run_workflow_async leaves once run() is over: COMPLETED after
\* a return (executions.py:69), FAILED after an exception (executions.py:78),
\* whatever the row held.
StatusAfter(i, old) ==
    IF pc'[i] = "done" THEN "COMPLETED"
    ELSE IF pc'[i] = "raised" THEN "FAILED"
    ELSE old

\* The columns run_workflow_async writes with the status: output_data of
\* the state run() returned (executions.py:70), or the text of the
\* exception (executions.py:79).
RowAfter(i, old) ==
    IF pc'[i] = "done" THEN [old EXCEPT !.output_data = chan'[i].output_data]
    ELSE IF pc'[i] = "raised" THEN [old EXCEPT !.error_message = exc'[i]]
    ELSE old

\* What run_workflow_async commits once run() is over.
Commit(i, old) ==
    /\ status' = [status EXCEPT ![i] = StatusAfter(i, old)]
    /\ row' = [row EXCEPT ![i] = RowAfter(i, @)]
    /\ UNCHANGED <<registry_vars, aux_vars>>

\* run_workflow_async (executions.py:36-84) up to the first node: the row is
\* set RUNNING, whatever it held, and run() is called on a new object.
run_workflow_async(i) ==
    /\ i \in ApiExecs
    /\ status[i] \in {"PENDING", "CANCELLED"}
    /\ run(i, ObjNames[i], ExecNames[i], InputOf(i), NoConfig)
    /\ Commit(i, "RUNNING")

\* The steps of run() inside run_workflow_async, and the status written
\* when it is over.
ApiNodeReturns(i, n) == NodeReturns(i, n) /\ Commit(i, status[i])
ApiBranchRaises(i, n) == BranchRaises(i, n) /\ Commit(i, status[i])
ApiHandlerRaises(i, n) == HandlerRaises(i, n) /\ Commit(i, status[i])

\* cancel_execution (executions.py:175-199): a PENDING or RUNNING row is set
\* CANCELLED.  Nothing else is done: the engine does not read the row.
cancel_execution(i) ==
    /\ status[i] \in {"PENDING", "RUNNING"}
    /\ status' = [status EXCEPT ![i] = "CANCELLED"]
    /\ UNCHANGED <<engine_vars, row, registry_vars, aux_vars>>

ApiNext ==
    \/ \E i \in Invs : run_workflow(i)
    \/ \E i \in Invs : run_workflow_async(i)
    \/ \E i \in Invs, n \in AllNodes : ApiNodeReturns(i, n)
    \/ \E i \in Invs, n \in AllNodes : ApiBranchRaises(i, n)
    \/ \E i \in Invs, n \in AllNodes : ApiHandlerRaises(i, n)
    \/ \E i \in Invs : cancel_execution(i)

\* The API runs the engine's classes and the examples.
InitApi ==
    wfclass \in Workflows \cup Examples /\ Constructed /\ worker = NoWorker /\ otp = NoOtp

SpecApi == InitApi /\ [][ApiNext]_vars

\* run_workflow_async awaits workflow.run (executions.py:63-66), and run()
\* awaits ainvoke (base.py:130): a node that is running gets to return or
\* raise, and its result is taken.
FairSpecApi ==
    /\ SpecApi
    /\ \A i \in Invs :
          WF_vars(\E n \in AllNodes :
                    ApiNodeReturns(i, n) \/ ApiBranchRaises(i, n) \/ ApiHandlerRaises(i, n))

\* ------------------------------------------------------------ the registry
\* workflows/registry.py.  Names and classes as the examples register them
\* (@register_workflow("job_scraper") on JobScraperWorkflow, ...).
RegNames == {"job_scraper", "ag_insurance", "elia_jobs"}
RegClasses == {"JobScraperWorkflow", "AGInsuranceWorkflow"}
\* The number of objects create() is let construct.
MaxMade == 2

\* A dict is a sequence of entries, in the order the keys were inserted.
Keys(d) == {d[k].name : k \in DOMAIN d}
GetItem(d, name) == (CHOOSE e \in {d[k] : k \in DOMAIN d} : e.name = name).cls

\* A plausible slip: setdefault, the first registration of a name stays.
SetDefault(d, name, workflow_class) ==
    IF name \in Keys(d) THEN d
    ELSE Append(d, [name |-> name, cls |-> workflow_class])

\* self._workflows[name] = workflow_class (registry.py:13): the value of a
\* key the dict has is replaced where it is, a new key comes last.
SetItem(d, name, workflow_class) ==
    IF name \in Keys(d)
    THEN [k \in DOMAIN d |->
            IF d[k].name = name THEN [name |-> name, cls |-> workflow_class] ELSE d[k]]
    ELSE Append(d, [name |-> name, cls |-> workflow_class])

\* A plausible slip: self._workflows[name], a KeyError for a missing name.
GetStrict(d, name) == IF name \in Keys(d) THEN GetItem(d, name) ELSE "KeyError"

\* self._workflows.get(name) (registry.py:17).
Get(d, name) == IF name \in Keys(d) THEN GetItem(d, name) ELSE None

\* list(self._workflows.keys()) (registry.py:21).
ListKeys(d) == [k \in DOMAIN d |-> d[k].name]

\* WorkflowRegistry.register (registry.py:11-13), and the decorator
\* register_workflow (registry.py:35-42), which calls it.
register(name, workflow_class) ==
    /\ _workflows' = SetItem(_workflows, name, workflow_class)
    /\ ret' = [op |-> "register", name |-> name, arg |-> workflow_class, result |-> None]
    /\ UNCHANGED <<made, engine_vars, api_vars, aux_vars>>

\* WorkflowRegistry.get (registry.py:15-17).
get(name) ==
    /\ ret' = [op |-> "get", name |-> name, arg |-> None, result |-> Get(_workflows, name)]
    /\ UNCHANGED <<_workflows, made, engine_vars, api_vars, aux_vars>>

\* WorkflowRegistry.list (registry.py:19-21).
list ==
    /\ ret' = [op |-> "list", name |-> None, arg |-> None, result |-> ListKeys(_workflows)]
    /\ UNCHANGED <<_workflows, made, engine_vars, api_vars, aux_vars>>

\* WorkflowRegistry.create (registry.py:23-28): ValueError when get() gives
\* nothing, else an object of the class is constructed.
create(name) ==
    LET workflow_class == Get(_workflows, name)
    IN /\ workflow_class = None \/ made < MaxMade
       /\ IF workflow_class = None
          THEN /\ ret' = [op |-> "create", name |-> name, arg |-> None,
                          result |-> "ValueError"]
               /\ made' = made
          ELSE /\ ret' = [op |-> "create", name |-> name, arg |-> None,
                          result |-> <<"object", workflow_class>>]
               /\ made' = made + 1
       /\ UNCHANGED <<_workflows, engine_vars, api_vars, aux_vars>>

RegistryNext ==
    \/ \E name \in RegNames, workflow_class \in RegClasses : register(name, workflow_class)
    \/ \E name \in RegNames : get(name)
    \/ list
    \/ \E name \in RegNames : create(name)

\* The registry of one process, before any module of examples is imported.
InitRegistry == Init /\ wfclass = "linear"

SpecRegistry == InitRegistry /\ [][RegistryNext]_vars

\* ------------------------------------------------- browser/manager.py
\* BrowserManager.__init__ (manager.py:14-22): nothing started.
NewManager == [_playwright |-> FALSE, _browser |-> FALSE]

\* get_browser_manager (manager.py:93-100) up to its first await: the
\* global is tested; when it is None a manager is constructed, assigned to
\* the global and start() is entered, otherwise the global is returned.
get_browser_manager(c) ==
    /\ callers[c].pc = "idle"
    /\ IF _browser_manager = NoManager
       THEN /\ managers' = Append(managers, NewManager)
            /\ _browser_manager' = Len(managers) + 1
            /\ callers' = [callers EXCEPT ![c] = [pc |-> "start", got |-> Len(managers) + 1]]
       ELSE /\ callers' = [callers EXCEPT ![c] = [pc |-> "returned", got |-> _browser_manager]]
            /\ UNCHANGED <<_browser_manager, managers>>
    /\ UNCHANGED <<core_vars, worker_vars, job_vars, otp_vars>>

\* start() (manager.py:24-30), first await: async_playwright().start().
start_playwright(c) ==
    /\ callers[c].pc = "start"
    /\ managers' = [managers EXCEPT ![callers[c].got]._playwright = TRUE]
    /\ callers' = [callers EXCEPT ![c].pc = "launch"]
    /\ UNCHANGED <<_browser_manager, core_vars, worker_vars, job_vars, otp_vars>>

\* start(), second await: chromium.launch; _browser is set, start() and
\* get_browser_manager return.
launch(c) ==
    /\ callers[c].pc = "launch"
    /\ managers' = [managers EXCEPT ![callers[c].got]._browser = TRUE]
    /\ callers' = [callers EXCEPT ![c].pc = "returned"]
    /\ UNCHANGED <<_browser_manager, core_vars, worker_vars, job_vars, otp_vars>>

\* Either await of start() raises (no browser installed, no display): the
\* exception leaves get_browser_manager, the global stays assigned.
start_raises(c) ==
    /\ callers[c].pc \in {"start", "launch"}
    /\ callers' = [callers EXCEPT ![c].pc = "raised"]
    /\ UNCHANGED <<_browser_manager, managers, core_vars, worker_vars, job_vars, otp_vars>>

\* The browser property (manager.py:40-44) read by the caller on what it
\* was returned (new_context, manager.py:53).
browser(c) ==
    /\ callers[c].pc = "returned"
    /\ callers' = [callers EXCEPT ![c].pc =
                      IF managers[callers[c].got]._browser THEN "used" ELSE "not_started"]
    /\ UNCHANGED <<_browser_manager, managers, core_vars, worker_vars, job_vars, otp_vars>>

BrowserNext ==
    \/ \E c \in Callers : get_browser_manager(c)
    \/ \E c \in Callers : start_playwright(c)
    \/ \E c \in Callers : launch(c)
    \/ \E c \in Callers : start_raises(c)
    \/ \E c \in Callers : browser(c)

InitBrowser == Init /\ wfclass = "login"
SpecBrowser == InitBrowser /\ [][BrowserNext]_vars

\* ------------------------------------------------------ run_worker.py
MaxList == 3
\* Names WORKFLOW_LIST may hold: two registered ones and one that is not.
WorkerNames == {"connecting_expertise", "pro_unity", "nope"}
RECURSIVE Lists(_, _)
Lists(S, n) ==
    IF n = 0 THEN {<<>>} ELSE Lists(S, n - 1) \cup {Append(l, x) : l \in Lists(S, n - 1), x \in S}

\* A plausible slip: the break after a failure is missing.
AfterFailureContinue(fail_fast) == "loop"

\* `if fail_fast: break` after a failure (run_worker.py:65-66, 88-89):
\* where the loop goes on from.
AfterFailure(fail_fast) == IF fail_fast THEN "return" ELSE "loop"

\* _run_all (run_worker.py:50-59): the environment is read (the list of
\* names, WORKER_FAIL_FAST, and WORKFLOW_INPUTS, of which bad_inputs are the
\* names whose entry is not a JSON object) and failures is 0.
_run_all ==
    /\ worker.pc = "idle"
    /\ worker' = [worker EXCEPT !.pc = "loop"]
    /\ UNCHANGED <<core_vars, browser_vars, job_vars, otp_vars>>

\* One turn of the for loop up to its first await (run_worker.py:61-83):
\* an unregistered name is counted; otherwise input_data is built with
\* dict(), outside the try, which raises TypeError on an entry that is not
\* an object, and the workflow is created and started.  After the last name
\* the loop is left.
next_name ==
    /\ worker.pc = "loop"
    /\ IF worker.k = Len(worker.workflow_names)
       THEN worker' = [worker EXCEPT !.pc = "return"]
       ELSE LET name == worker.workflow_names[worker.k + 1]
            IN  IF name \notin Registered
                THEN worker' = [worker EXCEPT !.failures = @ + 1,
                                              !.seen = Append(@, name),
                                              !.outcomes = Append(@, "unregistered"),
                                              !.k = @ + 1,
                                              !.pc = AfterFailure(worker.fail_fast)]
                ELSE IF name \in worker.bad_inputs
                THEN worker' = [worker EXCEPT !.pc = "raised"]
                ELSE worker' = [worker EXCEPT !.seen = Append(@, name),
                                              !.active = @ \cup {name},
                                              !.pc = "running"]
    /\ UNCHANGED <<core_vars, browser_vars, job_vars, otp_vars>>

\* workflow.run returned (run_worker.py:83-84).
run_returns ==
    /\ worker.pc = "running"
    /\ worker' = [worker EXCEPT !.outcomes = Append(@, "completed"),
                                !.active = {},
                                !.k = @ + 1,
                                !.pc = "loop"]
    /\ UNCHANGED <<core_vars, browser_vars, job_vars, otp_vars>>

\* create() or workflow.run raised an Exception (run_worker.py:85-89).
run_raises ==
    /\ worker.pc = "running"
    /\ worker' = [worker EXCEPT !.failures = @ + 1,
                                !.outcomes = Append(@, "raised"),
                                !.active = {},
                                !.k = @ + 1,
                                !.pc = AfterFailure(worker.fail_fast)]
    /\ UNCHANGED <<core_vars, browser_vars, job_vars, otp_vars>>

\* `return failures` (run_worker.py:91).
return_failures ==
    /\ worker.pc = "return"
    /\ worker' = [worker EXCEPT !.pc = "returned"]
    /\ UNCHANGED <<core_vars, browser_vars, job_vars, otp_vars>>

\* main (run_worker.py:94-102): SystemExit(1) when failures is not 0; an
\* exception that left _run_all leaves main too, and the interpreter exits
\* with 1.
main ==
    /\ worker.pc \in {"returned", "raised"}
    /\ worker' = [worker EXCEPT !.pc = IF worker.pc = "raised" THEN "crashed" ELSE "exited",
                                !.exit = IF worker.pc = "raised" \/ worker.failures # 0
                                         THEN 1 ELSE 0]
    /\ UNCHANGED <<core_vars, browser_vars, job_vars, otp_vars>>

WorkerNext ==
    \/ _run_all
    \/ next_name
    \/ run_returns
    \/ run_raises
    \/ return_failures
    \/ main

InitWorker ==
    /\ wfclass = "linear"
    /\ Constructed
    /\ otp = NoOtp
    /\ \E names \in Lists(WorkerNames, MaxList), ff \in BOOLEAN,
          bad \in SUBSET (WorkerNames \cap Registered) :
          worker = [NoWorker EXCEPT !.workflow_names = names, !.fail_fast = ff,
                                    !.bad_inputs = bad]
SpecWorker == InitWorker /\ [][WorkerNext]_vars

\* -------------------------------------------------- db/job_repository.py
MaxBatch == 2
\* job_data dicts: with a reference, with a url only ("jobs/r1/", held as
\* its "/"-separated segments), with neither.
JobData ==
    {[reference |-> "r1", url |-> <<>>],
     [reference |-> "", url |-> <<"jobs", "r1", "">>],
     [reference |-> "", url |-> <<>>],
     [reference |-> "r2", url |-> <<"jobs", "r2">>]}
\* source arguments: a JobSource member or a plain string.
Sources == {"JobSource.ELIA", "elia", "bnppf"}

\* url.rstrip("/").split("/")[-1] (job_repository.py:39) on the segments
\* of url: the trailing empty segments go, the last one left is taken.
RECURSIVE RStrip(_)
RStrip(url) ==
    IF url = <<>> THEN <<>>
    ELSE IF url[Len(url)] = "" THEN RStrip(SubSeq(url, 1, Len(url) - 1))
    ELSE url
UrlReference(url) == IF RStrip(url) = <<>> THEN "" ELSE RStrip(url)[Len(RStrip(url))]

\* `source.value if isinstance(source, JobSource) else source`
\* (job_repository.py:45; JobSource.ELIA = "elia", models.py:14).
SourceStr(source) == IF source = "JobSource.ELIA" THEN "elia" ELSE source

\* get_by_source_and_reference (job_repository.py:100-106): the row of the
\* table with that source and reference, if there is one.
get_by_source_and_reference(source, reference) ==
    {k \in DOMAIN jobs : jobs[k].source = source /\ jobs[k].reference = reference}

\* save_jobs_batch (job_repository.py:77-89): the counters are 0.
save_jobs_batch(s, jobs_data, source) ==
    /\ sessions[s].pc = "idle"
    /\ \A r \in Sessions : r < s => sessions[r].pc # "idle"
    /\ sessions' = [sessions EXCEPT ![s] =
                       [NoSession EXCEPT !.pc = "next", !.source = source, !.todo = jobs_data]]
    /\ UNCHANGED <<jobs, core_vars, browser_vars, worker_vars, otp_vars>>

\* What save_jobs_batch does with the (job, was_created) it got for the
\* first dict left (job_repository.py:92-96).
Counted(ses, was_created) ==
    [ses EXCEPT !.todo = Tail(@),
                !.new_count = IF was_created THEN @ + 1 ELSE @,
                !.skipped_count = IF was_created THEN @ ELSE @ + 1,
                !.pc = "next"]

\* The loop of save_jobs_batch and save_job up to its first await
\* (job_repository.py:91-92, 33-48): the reference is the dict's or the last
\* segment of its url; with neither the dict is skipped.
save_job(s) ==
    /\ sessions[s].pc = "next"
    /\ IF sessions[s].todo = <<>>
       THEN sessions' = [sessions EXCEPT ![s].pc = "returned"]
       ELSE LET job_data == Head(sessions[s].todo)
            IN  IF job_data.reference # ""
                THEN sessions' = [sessions EXCEPT ![s].reference = job_data.reference,
                                                  ![s].pc = "select"]
                ELSE IF job_data.url # <<>>
                THEN sessions' = [sessions EXCEPT ![s].reference = UrlReference(job_data.url),
                                                  ![s].pc = "select"]
                ELSE sessions' = [sessions EXCEPT ![s] = Counted(@, FALSE)]
    /\ UNCHANGED <<jobs, core_vars, browser_vars, worker_vars, otp_vars>>

\* The SELECT of save_job (job_repository.py:48-51): an existing row is
\* returned with was_created False.
select(s) ==
    /\ sessions[s].pc = "select"
    /\ IF get_by_source_and_reference(SourceStr(sessions[s].source), sessions[s].reference) # {}
       THEN sessions' = [sessions EXCEPT ![s] = Counted(@, FALSE)]
       ELSE sessions' = [sessions EXCEPT ![s].pc = "commit"]
    /\ UNCHANGED <<jobs, core_vars, browser_vars, worker_vars, otp_vars>>

\* session.add and commit (job_repository.py:54-75): the INSERT, which the
\* table's unique constraint on (source, reference) (models.py:42-44)
\* refuses with IntegrityError when the row is there by now.
commit(s) ==
    /\ sessions[s].pc = "commit"
    /\ IF get_by_source_and_reference(SourceStr(sessions[s].source), sessions[s].reference) # {}
       THEN /\ sessions' = [sessions EXCEPT ![s].pc = "raised", ![s].exc = "IntegrityError"]
            /\ UNCHANGED jobs
       ELSE /\ jobs' = Append(jobs, [source |-> SourceStr(sessions[s].source),
                                     reference |-> sessions[s].reference,
                                     by |-> s])
            /\ sessions' = [sessions EXCEPT ![s] = Counted(@, TRUE)]
    /\ UNCHANGED <<core_vars, browser_vars, worker_vars, otp_vars>>

JobsNext ==
    \/ \E s \in Sessions, jobs_data \in Lists(JobData, MaxBatch) \ {<<>>}, source \in Sources :
          save_jobs_batch(s, jobs_data, source)
    \/ \E s \in Sessions : save_job(s)
    \/ \E s \in Sessions : select(s)
    \/ \E s \in Sessions : commit(s)

InitJobs == Init /\ wfclass = "sink"
SpecJobs == InitJobs /\ [][JobsNext]_vars

\* ---------------------------------------------------- integrations/m365.py
MaxTimeout == 2
MaxInterval == 1
MaxEmails == 2
MaxPollTime == 2
\* The messages a poll may list, by what the loop reads of them: whether
\* the sender and the subject hold the text looked for, and the code
\* _extract_otp finds in the body ("" for none).
Emails ==
    {[sender |-> FALSE, subject |-> TRUE, otp |-> "111111"],
     [sender |-> TRUE, subject |-> FALSE, otp |-> "222222"],
     [sender |-> TRUE, subject |-> TRUE, otp |-> ""],
     [sender |-> TRUE, subject |-> TRUE, otp |-> "654321"]}

\* The sender and subject tests of the for loop (m365.py:137-143).
Matches(email, subject_contains) ==
    email.sender /\ (subject_contains = "None" \/ email.subject)

\* The for loop over the listed messages (m365.py:133-156): the code of the
\* first one that matches and holds a code, "" when there is none.
FirstOtp(response, subject_contains) ==
    LET hits == {k \in DOMAIN response :
                   Matches(response[k], subject_contains) /\ response[k].otp # ""}
    IN  IF hits = {} THEN ""
        ELSE response[CHOOSE k \in hits : \A l \in hits : k <= l].otp

\* A plausible slip: only the HTTP status error is caught.
CatchesHttpOnly(kind) == kind = "HTTPStatusError"

\* The except clauses of the poll (m365.py:160-163).
Catches(kind) == kind \in {"HTTPStatusError", "Exception"}

\* wait_for_otp_email (m365.py:80-105): start_time is taken.
wait_for_otp_email(timeout_seconds, poll_interval, subject_contains) ==
    /\ otp.pc = "idle"
    /\ otp' = [NoOtp EXCEPT !.timeout_seconds = timeout_seconds,
                            !.poll_interval = poll_interval,
                            !.subject_contains = subject_contains,
                            !.pc = "while"]
    /\ UNCHANGED <<core_vars, browser_vars, worker_vars, job_vars>>

\* The while test (m365.py:107) and, when it fails, `return None`
\* (m365.py:167-168).
while_test ==
    /\ otp.pc = "while"
    /\ otp' = IF otp.elapsed < otp.timeout_seconds
              THEN [otp EXCEPT !.pc = "poll"]
              ELSE [otp EXCEPT !.pc = "returned", !.result = "None"]
    /\ UNCHANGED <<core_vars, browser_vars, worker_vars, job_vars>>

\* The poll answered (m365.py:109-158), after some time: the first code
\* found is returned, without one the loop goes to sleep.
poll_returns(response, took) ==
    /\ otp.pc = "poll"
    /\ otp' = IF FirstOtp(response, otp.subject_contains) # ""
              THEN [otp EXCEPT !.pc = "returned", !.response = response,
                               !.elapsed = @ + took,
                               !.result = FirstOtp(response, otp.subject_contains)]
              ELSE [otp EXCEPT !.pc = "sleep", !.response = response, !.elapsed = @ + took]
    /\ UNCHANGED <<core_vars, browser_vars, worker_vars, job_vars>>

\* The poll raised (the token request, the GET, raise_for_status, the JSON
\* or a message of an unexpected shape): the exception is logged
\* (m365.py:160-163).
poll_raises(kind, took) ==
    /\ otp.pc = "poll"
    /\ otp' = IF Catches(kind)
              THEN [otp EXCEPT !.pc = "sleep", !.errors = @ + 1, !.elapsed = @ + took]
              ELSE [otp EXCEPT !.pc = "raised", !.result = kind]
    /\ UNCHANGED <<core_vars, browser_vars, worker_vars, job_vars>>

\* asyncio.sleep(poll_interval) (m365.py:165).
sleep ==
    /\ otp.pc = "sleep"
    /\ otp' = [otp EXCEPT !.pc = "while", !.elapsed = @ + otp.poll_interval]
    /\ UNCHANGED <<core_vars, browser_vars, worker_vars, job_vars>>

OtpNext ==
    \/ \E t \in 0..MaxTimeout, p \in 0..MaxInterval, subj \in {"None", "code"} :
          wait_for_otp_email(t, p, subj)
    \/ while_test
    \/ \E response \in Lists(Emails, MaxEmails), took \in 1..MaxPollTime :
          poll_returns(response, took)
    \/ \E kind \in {"HTTPStatusError", "Exception"}, took \in 1..MaxPollTime :
          poll_raises(kind, took)
    \/ sleep

InitOtp == wfclass = "mixed" /\ Constructed /\ worker = NoWorker /\ otp = NoOtp
SpecOtp == InitOtp /\ [][OtpNext]_vars
\* Every await of the loop comes back: the HTTP client gives up a request
\* after its timeout, and asyncio.sleep ends.
FairSpecOtp == SpecOtp /\ WF_vars(OtpNext)

\* ------------------------------------------------------------------ claims
ThreadOf(i) == <<call[i].obj, call[i].tid>>
CkptOf(i) == store[call[i].obj][call[i].tid]
LogOf(i) == mlog[call[i].obj][call[i].tid]
HistOf(i) == hist[call[i].obj][call[i].tid]
\* No later call has been made on the thread of call i.
Latest(i) ==
    ~ \E j \in Invs : j > i /\ pc[j] # "idle" /\ ThreadOf(j) = ThreadOf(i)

MsgsOf(d) == IF "messages" \in DOMAIN d THEN d.messages ELSE <<>>
RECURSIVE ConcatMsgs(_)
ConcatMsgs(log) ==
    IF Len(log) = 0 THEN <<>>
    ELSE MsgsOf(Head(log).delta) \o ConcatMsgs(Tail(log))

RECURSIVE Replay(_, _)
Replay(state, log) ==
    IF Len(log) = 0 THEN state
    ELSE Replay(ApplyDelta(state, Head(log).delta), Tail(log))

C2_CheckpointBeforeNextNode ==
    \A i \in Invs :
        pc[i] = "step" =>
            /\ call[i].tid = call[i].eid
            /\ CkptOf(i).exists
            /\ CkptOf(i).values = chan[i]
            /\ CkptOf(i).values = Replay(EmptyChannels, LogOf(i))
            /\ running[i] \subseteq CkptOf(i).next

C2_Witness ==
    \E i \in Invs :
        /\ pc[i] = "step"
        /\ running[i] = {"c"}
        /\ Len(LogOf(i)) = 3
        /\ CkptOf(i).values.messages = <<"dup", "a", "dup", "b">>

\* The calls of run() made on the thread of call i before call i.
RunsBefore(i) ==
    {r \in Invs : r < i /\ call[r].kind = "run" /\ ThreadOf(r) = ThreadOf(i)}
LastRunBefore(i) == CHOOSE r \in RunsBefore(i) : \A q \in RunsBefore(i) : q <= r

\* Call i starts in this step.
Starts(i) == pc[i] = "idle" /\ pc'[i] # "idle"

\* C3: resume() on a thread that has a checkpoint takes the state of that
\* checkpoint and starts only nodes the checkpoint left to run; no node that
\* has returned since the thread's last run() is started again, the call is
\* over at once exactly when the checkpoint left nothing to run, and
\* otherwise it always has a node running until it ends.
C3_ResumeContinuesAtCheckpoint ==
    [][\A i \in Invs :
        /\ Starts(i) /\ call'[i].kind = "resume" /\ pc'[i] \in {"step", "done"} =>
              LET w == call'[i].obj
                  t == call'[i].tid
              IN /\ store[w][t].exists
                 /\ chan'[i] = store[w][t].values
                 /\ running'[i] \subseteq store[w][t].next
                 /\ (pc'[i] = "done") = (store[w][t].next = {})
                 /\ RunsBefore(i)' # {}
                 /\ \A k \in DOMAIN hist[w][t] :
                       /\ hist[w][t][k].st \in {"merged", "returned"}
                       /\ hist[w][t][k].inv >= LastRunBefore(i)'
                       => hist[w][t][k].node \notin running'[i]
        /\ call'[i].kind = "resume" /\ pc'[i] = "step" => running'[i] # {}
      ]_vars

C3_Witness ==
    \E i \in Invs :
        /\ call[i].kind = "resume"
        /\ pc[i] = "done"
        /\ \E k, l \in DOMAIN HistOf(i) :
              /\ HistOf(i)[k].inv < i /\ HistOf(i)[k].st = "merged"
              /\ HistOf(i)[l].inv = i /\ HistOf(i)[l].st = "merged"
        /\ \E k \in DOMAIN HistOf(i) : HistOf(i)[k].st = "raised"

\* C4: when a handler raises, the call is over with that exception raised
\* out of it, none of its nodes is running any more, no node is started, and
\* the thread's checkpoint stays as it was, which is the state the failed
\* step was started with; a call that has raised never runs a node again.
C4_HandlerExceptionAborts ==
    [][\A i \in Invs :
        /\ \A n \in AllNodes :
              HandlerRaises(i, n) =>
                  /\ pc'[i] = "raised"
                  /\ exc'[i] = "HandlerError"
                  /\ running'[i] = {}
                  /\ store' = store
                  /\ CkptOf(i).values = chan'[i]
                  /\ Len(HistOf(i)') = Len(HistOf(i))
                  /\ mlog' = mlog
        /\ pc[i] = "raised" =>
              /\ pc'[i] = "raised"
              /\ exc'[i] = exc[i]
              /\ running'[i] = {}
              /\ chan'[i] = chan[i]
              /\ \A k \in DOMAIN HistOf(i)' :
                    HistOf(i)'[k].inv = i => k \in DOMAIN HistOf(i)
      ]_vars

C4_Witness ==
    \E i \in Invs :
        /\ pc[i] = "raised"
        /\ exc[i] = "HandlerError"
        /\ Len(LogOf(i)) = 3
        /\ \E k \in DOMAIN HistOf(i) : HistOf(i)[k].node = "c" /\ HistOf(i)[k].st = "raised"

\* Call i applies the writes of a step in this step of the model: the nodes
\* whose dicts are applied.
Merges(i) == pc[i] = "step" /\ LogOf(i)' # LogOf(i)
MergedNodes(i) ==
    {LogOf(i)'[k].node : k \in (Len(LogOf(i)) + 1)..Len(LogOf(i)')}
MergedDeltas(i) ==
    {LogOf(i)'[k].delta : k \in (Len(LogOf(i)) + 1)..Len(LogOf(i)')}
GraphOf(i) == graph[call[i].obj]

\* C5 (as the code has it): when a condition function returns a label its
\* mapping does not hold, the call is over with KeyError raised out of it, no
\* node is running or started, nothing of the step is applied or saved, and
\* no dict is ever applied whose label the mapping does not hold.
C5_UnmappedLabelRaisesKeyError ==
    [][\A i \in Invs :
        /\ \A n \in AllNodes :
              BranchRaises(i, n) =>
                  /\ pc'[i] = "raised"
                  /\ exc'[i] = "KeyError"
                  /\ running'[i] = {}
                  /\ Len(HistOf(i)') = Len(HistOf(i))
                  /\ store' = store
                  /\ mlog' = mlog
        /\ Merges(i) =>
              \A n \in MergedNodes(i) : \A b \in BranchesOf(GraphOf(i), n) :
                  CallCondition(b.cond, chan'[i]) \in DOMAIN b.mapping
      ]_vars

C5_Witness ==
    \E i \in Invs :
        /\ wfclass = "unmapped"
        /\ pc[i] = "raised"
        /\ exc[i] = "KeyError"
        /\ \E k \in DOMAIN HistOf(i) : HistOf(i)[k].inv = i /\ HistOf(i)[k].st = "unrouted"

\* C5 as the claim has it: the call fails with UnmappedConditionResult.
C5_Original ==
    [][\A i \in Invs : \A n \in AllNodes :
        BranchRaises(i, n) =>
            /\ pc'[i] = "raised"
            /\ exc'[i] = "UnmappedConditionResult"
            /\ running'[i] = {}
      ]_vars

\* C6: when the dict of a node with a conditional edge is applied, the node
\* started next is the one the mapping gives for the label the condition
\* function returns on the state after the merge, the node's own dict
\* included; when the conditional edge is all the step had, that node is the
\* only one started, and the call is over when the target is END.
C6_ConditionOnMergedState ==
    [][\A i \in Invs :
        Merges(i) =>
            \A n \in MergedNodes(i) : \A b \in BranchesOf(GraphOf(i), n) :
                LET target == b.mapping[CallCondition(b.cond, chan'[i])]
                IN /\ target = END \/ target \in running'[i]
                   /\ MergedNodes(i) = {n} /\ EdgeTargets(GraphOf(i), n) = {} =>
                         /\ running'[i] = {target} \ {END}
                         /\ (pc'[i] = "done") = (target = END)
      ]_vars

C6_Witness ==
    \E i \in Invs :
        /\ wfclass = "login"
        /\ pc[i] = "step"
        /\ running[i] = {"c"}
        /\ chan[i].data.login_success = "F"
        /\ Len(LogOf(i)) = 2

\* The node names an edge or a mapping uses and the graph does not have.
UnknownRefs(g) ==
    (GraphSources(g) \ (g.nodes \cup {START})) \cup (GraphTargets(g) \ (g.nodes \cup {END}))

\* C7: when the nodes of a step have no outgoing edge, applying their dicts
\* ends the call without exception: nothing is started, the state returned
\* is the merged state with their dicts applied, and it is the checkpoint
\* saved; a graph is not rejected for having such a node.
C7_NoOutgoingEdgeEndsRun ==
    [][\A i \in Invs :
        /\ ( /\ Merges(i)
             /\ \A n \in MergedNodes(i) :
                   EdgeTargets(GraphOf(i), n) = {} /\ BranchesOf(GraphOf(i), n) = {} )
           => /\ pc'[i] = "done"
              /\ exc'[i] = None
              /\ running'[i] = {}
              /\ chan'[i] = Replay(EmptyChannels, LogOf(i)')
              /\ CkptOf(i)' = [exists |-> TRUE, values |-> chan'[i], next |-> {}]
        /\ exc'[i] = "ValueError" => UnknownRefs(build(wfclass)) # {}
      ]_vars

C7_Witness ==
    \E i \in Invs :
        /\ wfclass = "sink"
        /\ pc[i] = "done"
        /\ exc[i] = None
        /\ LogOf(i)[Len(LogOf(i))].node = "c"
        /\ chan[i].current_step = "c"

\* The nodes the graph triggers after the merged nodes of call i, for the
\* conditions evaluated on state.
TriggeredOn(i, state) ==
    (UNION {EdgeTargets(GraphOf(i), n)
              \cup {b.mapping[CallCondition(b.cond, state)] : b \in BranchesOf(GraphOf(i), n)} :
            n \in MergedNodes(i)}) \ {END}

\* The dicts applied since the thread's last run() started.
RECURSIVE SinceStart(_)
SinceStart(log) ==
    IF Len(log) = 0 \/ log[Len(log)].node = START THEN {}
    ELSE {log[Len(log)].delta} \cup SinceStart(SubSeq(log, 1, Len(log) - 1))
SetsError(d) == "error" \in DOMAIN d /\ d.error # None

\* C8: applying a dict that sets error does not end the call: no exception,
\* the error is in the merged state, and the nodes started are those the
\* edges give, the same as with error unset; once a dict has set error, the
\* state a call returns has it.
C8_ErrorFieldDoesNotAbort ==
    [][\A i \in Invs :
        /\ Merges(i) /\ (\E d \in MergedDeltas(i) : SetsError(d)) =>
              /\ pc'[i] \in {"step", "done"}
              /\ exc'[i] = None
              /\ chan'[i].error = "boom"
              /\ running'[i] = TriggeredOn(i, [chan'[i] EXCEPT !.error = None])
              /\ (pc'[i] = "done") = (running'[i] = {})
        /\ Merges(i) /\ pc'[i] = "done" /\ (\E d \in SinceStart(LogOf(i)') : SetsError(d)) =>
              chan'[i].error = "boom"
      ]_vars

C8_Witness ==
    \E i \in Invs :
        /\ wfclass = "linear"
        /\ pc[i] = "done"
        /\ chan[i].error = "boom"
        /\ chan[i].output_data.error = "boom"
        /\ Len(LogOf(i)) = 4

\* Call i takes this step of the model.
Acts(i) == <<pc[i], chan[i], running[i], call[i]>>' # <<pc[i], chan[i], running[i], call[i]>>
\* No earlier call used the execution_id of call i.
FirstOfId(i) == \A j \in Invs : j < i => call[j].eid # call[i].eid
\* The inputs and the execution ids of the calls other than call i.
OtherInputs(i) == {UserNames[k] : k \in DOMAIN UserNames} \ {call[i].input.username}
OtherIds(i) == ExecIds \ {call[i].eid}
OwnDataOnly(i) ==
    /\ chan[i].execution_id \notin OtherIds(i)
    /\ chan[i].input_data.username \notin OtherInputs(i)
    /\ chan[i].data.storage_state \notin OtherInputs(i)
    /\ chan[i].output_data.summary \notin OtherInputs(i)

\* C9: a step of a call changes the checkpoint and the put writes of no
\* execution_id but its own, and the state of no other call; a run() under
\* an execution_id no call used before starts from the initial state of its
\* own input, and once started its state only ever holds data computed
\* from that input.
C9_ExecutionsAreIsolated ==
    [][\A i \in Invs :
        /\ Acts(i) =>
              /\ \A w \in WObjs, e \in ExecIds :
                    w # call'[i].obj \/ e # call'[i].eid =>
                        store'[w][e] = store[w][e] /\ pending'[w][e] = pending[w][e]
              /\ \A j \in Invs \ {i} : chan'[j] = chan[j]
        /\ Starts(i) /\ call'[i].kind = "run" /\ pc'[i] = "step" /\ FirstOfId(i)' =>
              chan'[i] = InitialState(wfclass, get_entry_point(wfclass),
                                      call'[i].eid, call'[i].input)
        /\ ( /\ pc'[i] # "idle" /\ exc'[i] # "ValueError"
             /\ call'[i].kind = "run" /\ FirstOfId(i)' ) => OwnDataOnly(i)'
      ]_vars

C9_Witness ==
    \E i, j \in Invs :
        /\ call[i].kind = "run" /\ call[j].kind = "run"
        /\ call[i].obj = call[j].obj
        /\ call[i].eid # call[j].eid
        /\ pc[i] = "step" /\ pc[j] = "done"
        /\ chan[i].data.storage_state = call[i].input.username
        /\ chan[j].output_data.summary = call[j].input.username
        /\ call[i].input # call[j].input

\* C10 (as the code has it): with an entry point that is not a node, every
\* call fails in compile with ValueError, before any handler has run and
\* before any checkpoint is written.
C10_UnknownEntryRaisesValueError ==
    get_entry_point(wfclass) \notin define_nodes(wfclass) =>
        /\ \A i \in Invs :
              pc[i] # "idle" => pc[i] = "raised" /\ exc[i] = "ValueError" /\ running[i] = {}
        /\ \A w \in WObjs, e \in ExecIds :
              hist[w][e] = <<>> /\ ~ store[w][e].exists /\ pending[w][e] = {}

C10_Witness ==
    \E i \in Invs :
        /\ wfclass = "bad_entry"
        /\ call[i].kind = "run"
        /\ pc[i] = "raised"
        /\ exc[i] = "ValueError"

\* C10 as the claim has it: the failure is UnknownEntryPoint.
C10_Original ==
    get_entry_point(wfclass) \notin define_nodes(wfclass) =>
        /\ \A i \in Invs :
              pc[i] # "idle" => pc[i] = "raised" /\ exc[i] = "UnknownEntryPoint"
        /\ \A w \in WObjs, e \in ExecIds : hist[w][e] = <<>>

\* The node names define_edges uses, as a source, a target or a mapped
\* target, that define_nodes does not have.
UnknownEdgeNodes(wf) ==
    ( {e[1] : e \in SimpleEdges(wf)} \cup {e[2] : e \in SimpleEdges(wf)}
        \cup {b.from : b \in ConditionalEdges(wf)}
        \cup UNION { {b.mapping[l] : l \in DOMAIN b.mapping} : b \in ConditionalEdges(wf) } )
      \ (define_nodes(wf) \cup {END})

\* C11 (as the code has it): when an edge or a mapping of define_edges names
\* a node define_nodes does not have, every call fails in compile with
\* ValueError, the very error an unknown entry point gives, before any
\* handler has run and before any checkpoint is written.
C11_UnknownNodeRaisesValueError ==
    UnknownEdgeNodes(wfclass) # {} =>
        /\ \A i \in Invs :
              pc[i] # "idle" =>
                  /\ pc[i] = "raised"
                  /\ exc[i] = "ValueError"
                  /\ exc[i] = compile(build("bad_entry"))
                  /\ running[i] = {}
        /\ \A w \in WObjs, e \in ExecIds :
              hist[w][e] = <<>> /\ ~ store[w][e].exists /\ mlog[w][e] = <<>>

C11_Witness ==
    \E i \in Invs :
        /\ wfclass = "bad_branch"
        /\ UnknownEdgeNodes(wfclass) = {"zz"}
        /\ pc[i] = "raised"
        /\ exc[i] = "ValueError"

\* C11 as the claim has it: the failure is UnknownNode, and it can be told
\* from the failure of an unknown entry point.
C11_Original ==
    UnknownEdgeNodes(wfclass) # {} =>
        /\ \A i \in Invs :
              pc[i] # "idle" =>
                  /\ pc[i] = "raised"
                  /\ exc[i] = "UnknownNode"
                  /\ exc[i] # compile(build("bad_entry"))
        /\ \A w \in WObjs, e \in ExecIds : hist[w][e] = <<>>

C13_MergeIdempotentOnDicts ==
    \A i \in Invs :
        pc[i] = "step" =>
            \A n \in define_nodes(wfclass) :
                \A d \in HandlerDeltas(wfclass, n, chan[i]) :
                    LET once == ApplyDelta(chan[i], d)
                        twice == ApplyDelta(once, d)
                    IN /\ twice.output_data = once.output_data
                       /\ twice.data = once.data

C13_Witness ==
    \E i \in Invs :
        /\ pc[i] = "step"
        /\ running[i] = {"c"}
        /\ chan[i].data.login_success = "T"
        /\ \E d \in HandlerDeltas(wfclass, "c", chan[i]) :
              /\ ApplyDelta(chan[i], d).output_data # chan[i].output_data
              /\ ApplyDelta(ApplyDelta(chan[i], d), d).messages # ApplyDelta(chan[i], d).messages

\* The value the last dict of the log that has the key gives it.
RECURSIVE LastWrite(_, _)
LastWrite(log, key) ==
    IF key \in DOMAIN log[Len(log)].delta THEN log[Len(log)].delta[key]
    ELSE LastWrite(SubSeq(log, 1, Len(log) - 1), key)
\* The initial state the thread's last run() wrote.
RECURSIVE StartState(_)
StartState(log) ==
    IF log[Len(log)].node = START THEN log[Len(log)].delta
    ELSE StartState(SubSeq(log, 1, Len(log) - 1))
\* The dicts handlers returned since, that have the key.
Writers(log, key) == {d \in SinceStart(log) : key \in DOMAIN d}
\* Call i holds the state of its thread.
Holds(i) == pc[i] \in {"step", "done"} /\ Latest(i)

\* C14 (as the code has it): input_data is the value the caller supplied to
\* run() as long as no handler dict since has had an input_data key; a
\* handler dict that has the key replaces it, and input_data is then the
\* value of the last such dict.
C14_InputDataIsLastWritten ==
    \A i \in Invs :
        Holds(i) =>
            /\ call[i].kind = "run" => StartState(LogOf(i)).input_data = call[i].input
            /\ Writers(LogOf(i), "input_data") = {} =>
                  chan[i].input_data = StartState(LogOf(i)).input_data
            /\ Writers(LogOf(i), "input_data") # {} =>
                  /\ chan[i].input_data = LastWrite(LogOf(i), "input_data")
                  /\ chan[i].input_data \in {d.input_data : d \in Writers(LogOf(i), "input_data")}

C14_Witness ==
    \E i \in Invs :
        /\ pc[i] = "done"
        /\ call[i].kind = "run"
        /\ Latest(i)
        /\ Len(LogOf(i)) = 4
        /\ chan[i].input_data.username = "root"
        /\ call[i].input.username = "u1"

\* C14 as the claim has it: whatever the handlers return, input_data is the
\* value the caller supplied.
C14_Original ==
    \A i \in Invs :
        pc[i] \in {"step", "done"} /\ call[i].kind = "run" => chan[i].input_data = call[i].input

\* A returned dict without the keys WorkflowState does not have.
Known(d) == [k \in DOMAIN d \cap StateKeys |-> d[k]]
\* The state after the dicts log[from], log[from + 1], ... are merged, each
\* without the keys WorkflowState does not have.
RECURSIVE MergeKnown(_, _, _)
MergeKnown(state, log, from) ==
    IF from > Len(log) THEN state
    ELSE MergeKnown(ApplyDelta(state, Known(log[from].delta)), log, from + 1)

\* C15: applying a dict that has a key WorkflowState does not have raises
\* nothing and ends nothing: the merged state has the keys of WorkflowState
\* and no other, every one of them merged as if the dict came without the
\* unknown key, and the nodes the edges give are started.
C15_UnknownKeyIsDropped ==
    [][\A i \in Invs :
        Merges(i) /\ (\E d \in MergedDeltas(i) : ~ (DOMAIN d \subseteq StateKeys)) =>
            /\ pc'[i] \in {"step", "done"}
            /\ exc'[i] = None
            /\ DOMAIN chan'[i] = StateKeys
            /\ chan'[i] = MergeKnown(chan[i], LogOf(i)', Len(LogOf(i)) + 1)
            /\ running'[i] = TriggeredOn(i, chan'[i])
            /\ CkptOf(i)'.values = chan'[i]
      ]_vars

C15_Witness ==
    \E i \in Invs :
        /\ wfclass = "unmapped"
        /\ pc[i] = "step"
        /\ running[i] = {"c"}
        /\ "progress" \in DOMAIN LogOf(i)[Len(LogOf(i))].delta
        /\ LogOf(i)[Len(LogOf(i))].node = "b"
        /\ chan[i].messages = <<"dup", "a", "dup", "b">>

IdentityKeys == {"execution_id", "workflow_name"}

\* C16 (as the code has it): in every checkpoint and in the state of every
\* call, execution_id and workflow_name are the values run() set as long as
\* no handler dict since has had the key; a handler dict that has the key
\* replaces it, and the field is then the value of the last such dict.
C16_IdentityIsLastWritten ==
    /\ \A i \in Invs :
          Holds(i) =>
              /\ call[i].kind = "run" =>
                    /\ StartState(LogOf(i)).execution_id = call[i].eid
                    /\ StartState(LogOf(i)).workflow_name = wfclass
              /\ \A k \in IdentityKeys :
                    /\ Writers(LogOf(i), k) = {} => chan[i][k] = StartState(LogOf(i))[k]
                    /\ Writers(LogOf(i), k) # {} => chan[i][k] = LastWrite(LogOf(i), k)
    /\ \A w \in WObjs, e \in ExecIds :
          store[w][e].exists =>
              \A k \in IdentityKeys :
                  /\ Writers(mlog[w][e], k) = {} =>
                        store[w][e].values[k] = StartState(mlog[w][e])[k]
                  /\ Writers(mlog[w][e], k) # {} =>
                        store[w][e].values[k] = LastWrite(mlog[w][e], k)

C16_Witness ==
    \E i \in Invs :
        /\ pc[i] = "done"
        /\ call[i].kind = "run"
        /\ call[i].eid = "e1"
        /\ chan[i].execution_id = "x"
        /\ chan[i].workflow_name = "other"
        /\ CkptOf(i).values.execution_id = "x"
        /\ chan[i].current_step = "c"

\* C16 as the claim has it: whatever the handlers return, every checkpoint
\* and the final state have the execution_id and workflow_name of run().
C16_Original ==
    \A i \in Invs :
        pc[i] \in {"step", "done"} /\ call[i].kind = "run" =>
            /\ chan[i].execution_id = call[i].eid
            /\ chan[i].workflow_name = wfclass
            /\ CkptOf(i).values.execution_id = call[i].eid
            /\ CkptOf(i).values.workflow_name = wfclass

\* C17: once a node has run, current_step in the merged state is the name
\* of the node that ran last.
C17_CurrentStepNamesLastNode ==
    \A i \in Invs :
        Holds(i) /\ LogOf(i)[Len(LogOf(i))].node # START =>
            chan[i].current_step = LogOf(i)[Len(LogOf(i))].node

\* C18: error is the value of the last dict that had an error key (the
\* initial state of run() being the first): once a handler dict has set it,
\* the dicts without error key merged after it leave it as it is, in the
\* state of the call and in the checkpoint.
C18_ErrorIsKept ==
    \A i \in Invs :
        Holds(i) =>
            /\ chan[i].error = LastWrite(LogOf(i), "error")
            /\ CkptOf(i).values.error = chan[i].error
            /\ Writers(LogOf(i), "error") = {} => chan[i].error = None
            /\ ( /\ Writers(LogOf(i), "error") # {}
                 /\ \A d \in Writers(LogOf(i), "error") : SetsError(d) )
               => chan[i].error # None

C18_Witness ==
    \E i \in Invs :
        /\ wfclass = "linear"
        /\ pc[i] = "done"
        /\ Len(LogOf(i)) = 4
        /\ SetsError(LogOf(i)[2].delta)
        /\ "error" \notin DOMAIN LogOf(i)[3].delta
        /\ LogOf(i)[3].node = "b"
        /\ "error" \notin DOMAIN LogOf(i)[4].delta
        /\ chan[i].error = "boom"

\* The edges that leave node n: its plain edges and its conditional edges.
OutDegree(g, n) == Cardinality(EdgeTargets(g, n)) + Cardinality(BranchesOf(g, n))
SingleSuccessor(g) == \A n \in g.nodes : OutDegree(g, n) <= 1

\* C19 (as the code has it): in a graph whose nodes have at most one
\* outgoing edge each, plain or conditional, a call has at most one node
\* running at any time.
C19_OneNodeAtATimeOnChains ==
    SingleSuccessor(build(wfclass)) =>
        \A i \in Invs :
            /\ Cardinality(running[i]) <= 1
            /\ Cardinality({k \in DOMAIN HistOf(i) :
                              HistOf(i)[k].inv = i /\ HistOf(i)[k].st = "running"}) <= 1

C19_Witness ==
    \E i \in Invs :
        /\ wfclass = "login"
        /\ SingleSuccessor(build(wfclass))
        /\ pc[i] = "step"
        /\ running[i] = {"b"}
        /\ Len(LogOf(i)) = 2
        /\ HistOf(i)[Len(HistOf(i))] = [node |-> "b", inv |-> i, st |-> "running"]

\* C19 as the claim has it: for any graph build() accepts, a call has at
\* most one node running at any time.
C19_Original ==
    \A i \in Invs :
        compile(build(wfclass)) = "ok" => Cardinality(running[i]) <= 1

\* C20: once the row of an execution is CANCELLED while a node of it is
\* running, no node of that execution is started any more.
C20_CancelStopsAtStepBoundary ==
    [][\A i \in Invs :
        status[i] = "CANCELLED" /\ pc[i] = "step" => running'[i] \subseteq running[i]
      ]_vars

\* Call i has had a dict of one of its own nodes merged.
HasMerged(i) ==
    \E k \in DOMAIN HistOf(i) : HistOf(i)[k].inv = i /\ HistOf(i)[k].st = "merged"

\* C21: a call of resume() with a non-empty new_input holds the keys of
\* new_input in input_data from its start on (until a dict of one of its
\* own nodes is merged, which may write input_data again).
C21_ResumeMergesNewInput ==
    \A i \in Invs :
        /\ call[i].kind = "resume"
        /\ call[i].input # EmptyInput
        /\ pc[i] \in {"step", "done"}
        /\ ~ HasMerged(i)
        => chan[i].input_data.username = call[i].input.username

\* C22: resume(execution_id) finds a checkpoint on whatever object it is
\* called, once a run() of that execution_id has had a node's dict merged.
C22_CheckpointSurvivesObject ==
    \A i \in Invs :
        /\ call[i].kind = "resume"
        /\ \E j \in Invs :
              /\ j < i
              /\ call[j].kind = "run"
              /\ call[j].eid = call[i].eid
              /\ HasMerged(j)
        => CkptOf(i).exists

\* C23: a call that has returned has its row COMPLETED with the output_data
\* of the state it returned and no error_message; a call that has raised,
\* a handler's exception included, has its row FAILED with the exception as
\* error_message and no output_data; and a row is COMPLETED or FAILED only
\* when its call is over in that way.
C23_RunEndsCompletedOrFailed ==
    \A i \in Invs :
        /\ pc[i] = "done" =>
              /\ status[i] = "COMPLETED"
              /\ row[i].output_data = chan[i].output_data
              /\ row[i].error_message = None
        /\ pc[i] = "raised" =>
              /\ status[i] = "FAILED"
              /\ exc[i] # None
              /\ row[i].error_message = exc[i]
              /\ row[i].output_data = None
        /\ status[i] = "COMPLETED" => pc[i] = "done"
        /\ status[i] = "FAILED" => pc[i] = "raised"
        /\ pc[i] = "step" => status[i] \in {"RUNNING", "CANCELLED"}

C23_Witness ==
    \E i, j \in Invs :
        /\ exc[i] = "HandlerError"
        /\ status[i] = "FAILED"
        /\ row[i].error_message = "HandlerError"
        /\ \E k \in DOMAIN HistOf(i) : HistOf(i)[k].st = "merged"
        /\ status[j] = "COMPLETED"
        /\ row[j].output_data.success = "T"

\* C30: a row that cancel_execution has set CANCELLED stays CANCELLED in
\* every later step, of the background runner included.
C30_CancelledIsFinal ==
    [][\A i \in Invs : status[i] = "CANCELLED" => status'[i] = "CANCELLED"]_vars

\* The step is a call of op on the registry.
RegistryCall(op) ==
    /\ ret'.op = op
    /\ \/ ret.op # op
       \/ ret'.name # ret.name
       \/ ret'.arg # ret.arg
       \/ ret'.result # ret.result
       \/ <<_workflows, made>>' # <<_workflows, made>>
IsOnce(l) == \A k, m \in DOMAIN l : l[k] = l[m] => k = m

\* C28: register(name, cls) raises nothing, makes get(name) give cls, whether
\* or not name was registered before, and leaves what get() gives for every
\* other name; no other call changes the dict; get(name) returns what the
\* dict holds; and list() returns every registered name exactly once.
C28_RegisterIsLastWriteWins ==
    [][/\ RegistryCall("register") =>
            /\ ret'.result = None
            /\ Get(_workflows', ret'.name) = ret'.arg
            /\ \A m \in RegNames \ {ret'.name} : Get(_workflows', m) = Get(_workflows, m)
            /\ Keys(_workflows') = Keys(_workflows) \cup {ret'.name}
       /\ ~ RegistryCall("register") => _workflows' = _workflows
       /\ RegistryCall("get") => ret'.result = Get(_workflows, ret'.name)
       /\ RegistryCall("list") =>
            /\ IsOnce(ret'.result)
            /\ {ret'.result[k] : k \in DOMAIN ret'.result} = Keys(_workflows)
       /\ IsOnce(ListKeys(_workflows'))
      ]_vars

\* A name registered first, another after it, and the first registered again.
C28_Witness ==
    /\ ret.op = "register"
    /\ Len(_workflows) = 2
    /\ _workflows[1].name = ret.name
    /\ _workflows[1].cls = ret.arg
    /\ _workflows[2].cls # ret.arg

\* C29: for a name the dict does not hold, get(name) returns None and
\* create(name) raises ValueError and constructs no object; neither changes
\* the dict.
C29_UnregisteredName ==
    [][\A op \in {"get", "create"} :
          RegistryCall(op) /\ ret'.name \notin Keys(_workflows) =>
              /\ _workflows' = _workflows
              /\ made' = made
              /\ op = "get" => ret'.result = None
              /\ op = "create" => ret'.result = "ValueError"
      ]_vars

C29_Witness ==
    /\ ret.op = "create"
    /\ ret.result = "ValueError"
    /\ Len(_workflows) = 2
    /\ made = 1

\* C26: applying a dict that sets should_retry changes nothing but the
\* field: no exception, the nodes started are those the edges give, the
\* same as with should_retry unset, and none of the nodes whose dicts were
\* applied is started again.
C26_ShouldRetryDoesNotRoute ==
    [][\A i \in Invs :
        Merges(i) /\ (\E d \in MergedDeltas(i) : SetsRetry(d)) =>
            /\ pc'[i] \in {"step", "done"}
            /\ exc'[i] = None
            /\ chan'[i].should_retry
            /\ running'[i] = TriggeredOn(i, [chan'[i] EXCEPT !.should_retry = FALSE])
            /\ running'[i] \cap MergedNodes(i) = {}
            /\ (pc'[i] = "done") = (running'[i] = {})
      ]_vars

C26_Witness ==
    \E i \in Invs :
        /\ wfclass = "unmapped"
        /\ pc[i] = "done"
        /\ Len(LogOf(i)) = 4
        /\ LogOf(i)[3].node = "b"
        /\ SetsRetry(LogOf(i)[3].delta)
        /\ LogOf(i)[4].node = "c"
        /\ chan[i].should_retry

\* The nodes call i has started, and those whose dicts it has had merged.
StartedBy(i) == {HistOf(i)[k].node : k \in {x \in DOMAIN HistOf(i) : HistOf(i)[x].inv = i}}
MergedBy(i) ==
    {HistOf(i)[k].node :
        k \in {x \in DOMAIN HistOf(i) : HistOf(i)[x].inv = i /\ HistOf(i)[x].st = "merged"}}
\* The targets the graph gives node n: of its plain edges, and of its
\* conditional edges on the state of call i (login_success is written by
\* the node that has the conditional edge and by no later one).
PlainSuccessors(g, n) == {e[2] : e \in {x \in g.edges : x[1] = n}}
MappedSuccessors(g, n, state) ==
    {b.mapping[CallCondition(b.cond, state)] : b \in {x \in g.branches : x.from = n}}
HasBoth(g, n) == PlainSuccessors(g, n) # {} /\ \E b \in g.branches : b.from = n

\* C27 (as the code has it): a node that has both a plain and a conditional
\* edge has both followed: once its dict is merged, the target of the plain
\* edge and the mapped target of the conditional edge are both started.
C27_BothEdgesAreFollowed ==
    \A i \in Invs :
        \A n \in MergedBy(i) :
            HasBoth(GraphOf(i), n) =>
                (PlainSuccessors(GraphOf(i), n) \cup MappedSuccessors(GraphOf(i), n, chan[i]))
                    \ {END} \subseteq StartedBy(i)

C27_Witness ==
    \E i \in Invs :
        /\ wfclass = "mixed"
        /\ pc[i] = "done"
        /\ MergedBy(i) = {"a", "b", "c"}

\* C27 as the claim has it: the conditional edge takes precedence, and the
\* target of the plain edge is not run.
C27_Original ==
    \A i \in Invs :
        \A n \in MergedBy(i) :
            HasBoth(GraphOf(i), n) =>
                (PlainSuccessors(GraphOf(i), n) \ MappedSuccessors(GraphOf(i), n, chan[i]))
                    \cap StartedBy(i) = {}

C25_FetchFailureIsInOutput ==
    \A i \in Invs :
        /\ wfclass = "ag_insurance"
        /\ pc[i] = "done"
        /\ chan[i].error # None
        => chan[i].output_data.error \notin {Absent, None}

\* C31: a call of run() that has started its entry node and has had no dict
\* merged yet holds messages, output_data and data empty and error null,
\* whatever was run on its thread before.
C31_RunStartsFromEmptyState ==
    \A i \in Invs :
        call[i].kind = "run" /\ pc[i] = "step" /\ ~ HasMerged(i) =>
            /\ chan[i].messages = <<>>
            /\ chan[i].output_data = EmptyOutput
            /\ chan[i].data = EmptyData
            /\ chan[i].error = None

\* C32: every run() saves its state under the thread named by its
\* execution_id, whatever config it was given.
C32_ThreadIsExecutionId ==
    \A i \in Invs :
        call[i].kind = "run" /\ pc[i] # "idle" => call[i].tid = call[i].eid

\* The nodes an edge or a mapping of the graph leads to from n, and the
\* nodes a path of such steps reaches from START.
Successors(g, n) ==
    {e[2] : e \in {x \in g.edges : x[1] = n}}
      \cup UNION { {b.mapping[l] : l \in DOMAIN b.mapping} : b \in {x \in g.branches : x.from = n} }
RECURSIVE ReachFrom(_, _)
ReachFrom(g, S) ==
    IF (UNION {Successors(g, n) : n \in S}) \subseteq S THEN S
    ELSE ReachFrom(g, S \cup UNION {Successors(g, n) : n \in S})
Reachable(g) == ReachFrom(g, {START}) \cap g.nodes

\* C33: in the graph an object of a registered workflow has built, each
\* declared node, handle_error included, is on a path of edges and mappings
\* from the entry point.
C33_EveryNodeIsReachable ==
    \A w \in WObjs :
        wfclass \in Registered /\ graph[w] # NoGraph => Reachable(graph[w]) = graph[w].nodes

\* No path of edges and mappings leads from a node of g back to it.
Acyclic(g) == \A n \in g.nodes : n \notin ReachFrom(g, Successors(g, n))
\* The nodes call i has started, once for every time it started them.
StartsOf(i) == SelectSeq(HistOf(i), LAMBDA h : h.inv = i)
OncePerCall(i) ==
    \A k, l \in DOMAIN StartsOf(i) : StartsOf(i)[k].node = StartsOf(i)[l].node => k = l

\* C34: the graph of every registered workflow is acyclic; a run of one
\* starts no node twice, and once started it ends: in END, or with the
\* exception of a handler that raised.
C34_RunsEndAndRepeatNoNode ==
    /\ [](\A wf \in Registered : Acyclic(build(wf)))
    /\ [](\A i \in Invs : wfclass \in Registered /\ pc[i] # "idle" => OncePerCall(i))
    /\ [](\A i \in Invs :
            wfclass \in Registered /\ pc[i] = "raised" => exc[i] = "HandlerError")
    /\ \A i \in Invs :
          (wfclass \in Registered /\ pc[i] = "step") ~> (pc[i] \in {"done", "raised"})
C34_Witness ==
    /\ wfclass = "connecting_expertise"
    /\ \E i \in Invs :
          /\ pc[i] = "done"
          /\ {StartsOf(i)[k].node : k \in DOMAIN StartsOf(i)} =
                define_nodes(wfclass) \ {"handle_error"}

\* C35: every manager get_browser_manager has returned has completed
\* start(): its _browser is set, and reading its browser property does not
\* raise.
C35_ReturnedManagerIsStarted ==
    \A c \in Callers :
        /\ callers[c].pc = "returned" => managers[callers[c].got]._browser
        /\ callers[c].pc # "not_started"

\* The failures among the outcomes of the names the loop has dealt with.
Failed(outcomes) == {k \in DOMAIN outcomes : outcomes[k] # "completed"}
WorkerOver == worker.pc \in {"returned", "raised", "exited", "crashed"}

\* C36: with WORKER_FAIL_FAST off, _run_all runs one workflow at a time,
\* and when it is over it has dealt with every listed name once, in list
\* order, it has returned the number of names that were unregistered or
\* whose run raised, and the process exits non-zero exactly when that number
\* is positive.
C36_EveryWorkflowIsAttempted ==
    ~ worker.fail_fast =>
        /\ Cardinality(worker.active) <= 1
        /\ WorkerOver =>
              /\ worker.seen = worker.workflow_names
              /\ worker.pc \in {"returned", "exited"}
              /\ worker.failures = Cardinality(Failed(worker.outcomes))
        /\ worker.pc = "exited" => (worker.exit # 0 <=> Failed(worker.outcomes) # {})

\* C37: with WORKER_FAIL_FAST on, once a name was unregistered or a run
\* raised, _run_all is over: that name is the last one dealt with, no
\* workflow runs or is started, and 1 is returned.
C37_FailFastStopsAtFirstFailure ==
    worker.fail_fast /\ Failed(worker.outcomes) # {} =>
        /\ Failed(worker.outcomes) = {Len(worker.outcomes)}
        /\ worker.seen = SubSeq(worker.workflow_names, 1, Len(worker.outcomes))
        /\ worker.active = {}
        /\ worker.pc \in {"return", "returned", "exited"}
        /\ worker.failures = 1
C37_Witness ==
    /\ worker.fail_fast
    /\ worker.pc = "returned"
    /\ worker.outcomes = <<"completed", "raised">>
    /\ Len(worker.workflow_names) = 3

\* C38: the jobs table never holds two rows with the same (source,
\* reference), and no save fails: a dict whose (source, reference) is present
\* is counted as skipped, and a session that is through has created as many
\* rows as it counted new.
C38_SaveSkipsDuplicates ==
    /\ \A k, l \in DOMAIN jobs :
          jobs[k].source = jobs[l].source /\ jobs[k].reference = jobs[l].reference => k = l
    /\ \A s \in Sessions :
          /\ sessions[s].pc # "raised"
          /\ sessions[s].pc = "returned" =>
                sessions[s].new_count = Cardinality({k \in DOMAIN jobs : jobs[k].by = s})

\* C39: wait_for_otp_email ends, and it ends by returning: the code of the
\* first matching message that holds one in the answer of its last poll, or
\* None, and None only once timeout_seconds have gone by; an exception of a
\* poll never leaves it.
C39_WaitForOtpTerminates ==
    /\ [](otp.pc # "raised")
    /\ [](otp.pc = "returned" =>
            IF otp.result = "None"
            THEN otp.elapsed >= otp.timeout_seconds
            ELSE otp.result = FirstOtp(otp.response, otp.subject_contains) /\ otp.result # "")
    /\ (otp.pc # "idle") ~> (otp.pc = "returned")
C39_Witness ==
    /\ otp.pc = "returned"
    /\ otp.result = "654321"
    /\ otp.errors > 0
    /\ Len(otp.response) = 2
    /\ otp.response[1].otp # "654321"

====
